---- MODULE Spec2Model ----
(***************************************************************************)
(* A model of the acquisition-and-matching engine of arbfinder-suite:      *)
(*   - the persistence store      backend/arb_finder.py, db_upsert_listing *)
(*   - the polite fetch client    backend/arb_finder.py, PoliteClient      *)
(*   - the orchestrator           backend/arb_finder.py, run_arbfinder     *)
(*   - the watch loop             backend/watch.py, WatchMode              *)
(*   - compute_comps, match_comps_to_live and Provider.search applied to   *)
(*     drawn arguments                                                     *)
(* Each component has its own specification (SpecStore, SpecClient,        *)
(* SpecClientFair, SpecGate, SpecSequential, SpecRun, SpecWatch, SpecFn,   *)
(* SpecSearch); a specification leaves the variables of the other          *)
(* components at their initial values.                                     *)
(*                                                                         *)
(* Encodings.  A nullable value (Python None or a number) is a sequence of *)
(* length at most one: Null = <<>>, Some(x) = <<x>>.  Percentages are      *)
(* integers in hundredths of a percent (20.0 % = 2000), which is the       *)
(* resolution of round(.., 2).  Times of the fetch client are integers in  *)
(* ticks of 0.2 s (RATE_LIMIT_SECONDS = 1.0 s = 5 ticks).                  *)
(***************************************************************************)
EXTENDS Integers, Sequences, FiniteSets, TLC

VARIABLES
    \* ---- persistence store (sqlite file) ----
    listings,       \* table listings: a set of rows
    listings_seq,   \* AUTOINCREMENT counter of listings.id (sqlite_sequence)
    comps_table,    \* table comps: a set of rows keyed by key_title
    upserted,       \* history: the Listings handed to db_upsert_listing, in call order
    \* ---- watch loop (one WatchMode instance and its run() coroutine) ----
    w_interval,       \* self.interval
    w_max_iterations, \* self.max_iterations (Null = None)
    w_iteration,      \* self.iteration
    w_best_deals,     \* self.best_deals
    w_pc,             \* where run() is
    w_calls,          \* history: number of times search_func was invoked
    w_reported,       \* history: the deals logged by _log_deal, in order
    w_result,         \* what run() returned (Null until it returns)
    w_slept,          \* history: the duration of the sleep run() is in / last was in
    w_failures,       \* history: number of consecutive iterations that ended in the handler
    w_outcome,        \* history: how the last step of run() out of a suspension ended
    \* ---- polite fetch client (one PoliteClient instance and the tasks calling get) ----
    c_last,         \* self._last: host -> time since the last response, in ticks of 0.2 s
    c_sem,          \* free permits of self._sem
    c_tasks,        \* per task: where its get() call is, and its locals
    c_prev_start,   \* history: host -> time since the last request to it was sent
    c_sent,         \* history: the request sent in the last step, if any, with the time
                    \* since the request before it to the same host
    c_returned,     \* history: the get call that ended in the last step, if any
    \* ---- orchestrator (one run_arbfinder invocation) ----
    r_ratio,          \* the score fuzz.token_set_ratio gives two different normalized titles
    r_threshold_pct,  \* args.threshold_pct (Null = None)
    r_providers,      \* args.providers (Null = None), split at the commas
    r_pc,             \* where run_arbfinder is
    r_client,         \* the PoliteClient of the run: "none", "open" or "closed"
    r_sold,           \* sold
    r_comps,          \* comps, in dict order
    r_wanted,         \* wanted
    r_i,              \* position of the provider loop in wanted (from 1)
    r_live,           \* live
    r_matched,        \* history: rows as match_comps_to_live returned them
    r_rows,           \* rows
    r_warnings,       \* history: number of "Provider %s failed" warnings logged
    r_calls,          \* history: the live provider calls made and how each ended
    r_error,          \* what made the run raise ("" while it has not)
    r_result,         \* what run_arbfinder returned (Null until it returns)
    \* ---- one application of compute_comps and match_comps_to_live ----
    f_pc,           \* "idle", "input", "built" or "matched"
    f_sold,         \* the listings given to compute_comps
    f_live,         \* the listings given to match_comps_to_live
    f_t,            \* sim_threshold
    f_t2,           \* a second, higher sim_threshold the same listings are clustered with
    f_comps,        \* compute_comps(f_sold, f_t), in dict order
    f_keys,         \* history: per sold listing, the key of the bin it went to at f_t
    f_keys2,        \* history: the same at f_t2
    f_exemplars,    \* history: exemplars of compute_comps(f_sold, f_t) when it returned
    f_match,        \* how match_comps_to_live(f_live, f_comps, f_t) ended, and its rows
    \* ---- one call of a provider's search ----
    s_pc,           \* "idle", "called" or "returned"
    s_provider,     \* the provider searched
    s_pages,        \* what each fetched page (or the imported file) holds, block by block
    s_limit,        \* limit
    s_items,        \* the list search returned
    \* ---- one application of compute_comps to prices with cents ----
    x_pc,           \* "idle", "input" or "built"
    x_sold,         \* the listings given to compute_comps, prices in cents
    x_sum,          \* which sum() the interpreter has: "loop" or "neumaier"
    x_comps,        \* compute_comps(x_sold), statistics as binary64 values
    x_keys          \* history: per sold listing, the key of the bin it went to

varsStore == <<listings, listings_seq, comps_table, upserted>>
varsWatch == <<w_interval, w_max_iterations, w_iteration, w_best_deals, w_pc, w_calls,
               w_reported, w_result, w_slept, w_failures, w_outcome>>
varsClient == <<c_last, c_sem, c_tasks, c_prev_start, c_sent, c_returned>>
varsRun == <<r_ratio, r_threshold_pct, r_providers, r_pc, r_client, r_sold, r_comps,
             r_wanted, r_i, r_live, r_matched, r_rows, r_warnings, r_calls, r_error,
             r_result>>
varsFn == <<f_pc, f_sold, f_live, f_t, f_t2, f_comps, f_keys, f_keys2, f_exemplars,
           f_match>>
varsSearch == <<s_pc, s_provider, s_pages, s_limit, s_items>>
varsStats == <<x_pc, x_sold, x_sum, x_comps, x_keys>>
vars == <<varsStore, varsWatch, varsClient, varsRun, varsFn, varsSearch, varsStats>>

Null == <<>>
Some(x) == <<x>>
IsNull(v) == v = <<>>
Val(v) == v[1]

Range(s) == {s[i] : i \in 1..Len(s)}

(***************************************************************************)
(* Persistence store                                                       *)
(***************************************************************************)

\* Bound: the number of db_upsert_listing calls explored by SpecStore.
MaxUpserts == 3

\* A url is a host and the number of an item on it.
Url(host, item) == <<host, item>>
Urls == {Url("shopgoodwill.com", 1), Url("shopgoodwill.com", 2)}
Sources == {"shopgoodwill", "govdeals"}

\* meta is a dict; json.dumps renders it.  "{}" is the rendering of the empty dict.
EmptyMeta == <<>>
Metas == {EmptyMeta, <<"q">>, <<"q", "page">>}
json_dumps(meta) ==
    CASE meta = <<>> -> "{}"
      [] meta = <<"q">> -> "{\"q\": \"rtx\"}"
      [] meta = <<"q", "page">> -> "{\"q\": \"rtx\", \"page\": 1}"

\* The (title, price, currency, condition, timestamp, meta) part of a Listing.
Payloads ==
    { [title |-> "Widget A", price |-> 100, currency |-> "USD", condition |-> "live",
       timestamp |-> 1, meta |-> EmptyMeta],
      [title |-> "Widget B", price |-> 70, currency |-> "GBP", condition |-> "sold",
       timestamp |-> 2, meta |-> <<"q">>],
      [title |-> "widget  a", price |-> 80, currency |-> "EUR", condition |-> "unknown",
       timestamp |-> 3, meta |-> <<"q", "page">>] }

Listing(source, url, p) ==
    [source |-> source, url |-> url, title |-> p.title, price |-> p.price,
     currency |-> p.currency, condition |-> p.condition,
     timestamp |-> p.timestamp, meta |-> p.meta]

\* Listing.url is None (ManualImport reads it with obj.get("url", ""), which gives
\* None for a JSON null, arb_finder.py 397); sqlite stores it as NULL.
NoUrl == Null

StoreListings == {Listing(s, u, p) : s \in Sources, u \in Urls \cup {NoUrl}, p \in Payloads}

\* The parameter tuple of the INSERT (arb_finder.py 124-133).
meta_json_of(l) == IF l.meta # EmptyMeta THEN json_dumps(l.meta) ELSE "{}"

InsertedRow(id, l) ==
    [id |-> id, source |-> l.source, url |-> l.url, title |-> l.title,
     price |-> l.price, currency |-> l.currency, condition |-> l.condition,
     ts |-> l.timestamp, meta_json |-> meta_json_of(l)]

\* ON CONFLICT(url) DO UPDATE SET title, price, currency, condition, ts, meta_json
\* (arb_finder.py 120-122): id and source are not in the SET list.
ConflictUpdatedRow(old, l) ==
    [old EXCEPT !.title = l.title, !.price = l.price, !.currency = l.currency,
                !.condition = l.condition, !.ts = l.timestamp,
                !.meta_json = meta_json_of(l)]

\* The row to insert violates `url TEXT UNIQUE` (arb_finder.py 100): a row with
\* the same url exists; in sqlite a NULL is distinct from every other NULL.
UniqueConflict(tbl, l) == l.url # NoUrl /\ \E r \in tbl : r.url = l.url

\* The listings table after the statement of db_upsert_listing.
UpsertListingRows(tbl, seq, l) ==
    IF UniqueConflict(tbl, l)
    THEN {IF r.url = l.url THEN ConflictUpdatedRow(r, l) ELSE r : r \in tbl}
    ELSE tbl \cup {InsertedRow(seq + 1, l)}

\* The AUTOINCREMENT counter after the statement: a new id is used by an insert only.
UpsertListingSeq(tbl, seq, l) ==
    IF UniqueConflict(tbl, l) THEN seq ELSE seq + 1

db_upsert_listing(l) ==
    /\ listings' = UpsertListingRows(listings, listings_seq, l)
    /\ listings_seq' = UpsertListingSeq(listings, listings_seq, l)
    /\ upserted' = Append(upserted, l)

\* State after db_init on a fresh file: both tables exist and are empty.
InitStore ==
    /\ listings = {}
    /\ listings_seq = 0
    /\ comps_table = {}
    /\ upserted = <<>>

\* One db_upsert_listing call of a client of the store.
StoreUpsert ==
    /\ Len(upserted) < MaxUpserts
    /\ \E l \in StoreListings : db_upsert_listing(l)
    /\ UNCHANGED <<comps_table, varsWatch, varsClient, varsRun, varsFn, varsSearch, varsStats>>

\* db_init on an existing file: CREATE TABLE IF NOT EXISTS changes nothing.
db_init ==
    /\ UNCHANGED vars


(***************************************************************************)
(* Watch loop (backend/watch.py)                                           *)
(***************************************************************************)

\* Bounds: search_func invocations explored, the largest iteration cap tried,
\* and the length of one iteration's result list.
MaxWatchCalls == 3
MaxCap == 2
MaxResults == 2

\* notify_threshold, in hundredths of a percent (the default, 30.0).
NotifyThreshold == 3000

\* The rows an iteration can return: match rows reduced to the keys the watch
\* loop reads (url, discount_vs_avg_pct); the discount may be None.
WatchDiscounts == {Null, Some(1000), Some(3000), Some(5000)}
WatchRows == [url : Urls, discount_vs_avg_pct : WatchDiscounts]
WatchResults == UNION {[1..n -> WatchRows] : n \in 0..MaxResults}

\* The loop of _find_new_deals from result i on.  existing_urls is the set built
\* once, before the loop.  `None >= float` raises TypeError: the loop stops there,
\* with self.best_deals already extended by the rows before it.
RECURSIVE FindLoop(_, _, _, _, _)
FindLoop(results, i, existing_urls, new_deals, best_deals) ==
    IF i > Len(results)
    THEN [raised |-> FALSE, new_deals |-> new_deals, best_deals |-> best_deals]
    ELSE LET result == results[i]
             discount == result.discount_vs_avg_pct
         IN  IF IsNull(discount)
             THEN [raised |-> TRUE, new_deals |-> new_deals, best_deals |-> best_deals]
             ELSE IF Val(discount) >= NotifyThreshold /\ result.url \notin existing_urls
                  THEN FindLoop(results, i + 1, existing_urls,
                                Append(new_deals, result), Append(best_deals, result))
                  ELSE FindLoop(results, i + 1, existing_urls, new_deals, best_deals)

_find_new_deals(results, best_deals) ==
    FindLoop(results, 1, {best_deals[i].url : i \in 1..Len(best_deals)}, <<>>, best_deals)

\* A handler that backs off longer after each consecutive failure.
RetryDelayEscalating(interval, failures) == interval * (failures + 1)

\* The sleep of the exception handler (watch.py 73).
RetryDelay(interval, failures) == interval

\* `if self.max_iterations and self.iteration > self.max_iterations` (watch.py 42):
\* None and 0 are both falsy.
CapReached(max_iterations, iteration) ==
    /\ ~IsNull(max_iterations)
    /\ Val(max_iterations) # 0
    /\ iteration > Val(max_iterations)

\* `if self.max_iterations is None or self.iteration < self.max_iterations` (watch.py 63)
SleepsAfterIteration(max_iterations, iteration) ==
    IsNull(max_iterations) \/ iteration < Val(max_iterations)

InitWatchIdle ==
    /\ w_interval = 3600
    /\ w_max_iterations = Null
    /\ w_iteration = 0
    /\ w_best_deals = <<>>
    /\ w_pc = "not_started"
    /\ w_calls = 0
    /\ w_reported = <<>>
    /\ w_result = Null
    /\ w_slept = Null
    /\ w_failures = 0
    /\ w_outcome = "none"

InitWatch ==
    /\ w_interval \in {60, 3600}
    /\ w_max_iterations \in {Null} \cup {Some(n) : n \in 0..MaxCap}
    /\ w_iteration = 0
    /\ w_best_deals = <<>>
    /\ w_pc = "loop_head"
    /\ w_calls = 0
    /\ w_reported = <<>>
    /\ w_result = Null
    /\ w_slept = Null
    /\ w_failures = 0
    /\ w_outcome = "none"

\* watch.py 40-50: the head of the loop up to the await of search_func.
EnterIteration ==
    /\ w_pc = "loop_head"
    /\ w_iteration' = w_iteration + 1
    /\ IF CapReached(w_max_iterations, w_iteration + 1)
       THEN /\ w_pc' = "returned"
            /\ w_result' = Some(w_best_deals)
            /\ UNCHANGED w_calls
       ELSE /\ w_calls < MaxWatchCalls
            /\ w_pc' = "searching"
            /\ w_calls' = w_calls + 1
            /\ UNCHANGED w_result
    /\ UNCHANGED <<w_interval, w_max_iterations, w_best_deals, w_reported, w_slept,
                   w_failures, w_outcome, varsStore, varsClient, varsRun, varsFn, varsSearch, varsStats>>

\* watch.py 50-65 and 70-73: search_func returns `results`.
SearchReturns ==
    /\ w_pc = "searching"
    /\ \E results \in WatchResults :
         LET f == _find_new_deals(results, w_best_deals)
         IN  /\ w_best_deals' = f.best_deals
             /\ IF f.raised
                THEN /\ w_outcome' = "find_raised"
                     /\ w_pc' = "err_sleeping"
                     /\ w_slept' = Some(RetryDelay(w_interval, w_failures))
                     /\ w_failures' = w_failures + 1
                     /\ UNCHANGED w_reported
                ELSE /\ w_outcome' = "returned"
                     /\ w_reported' = w_reported \o f.new_deals
                     /\ w_failures' = 0
                     /\ IF SleepsAfterIteration(w_max_iterations, w_iteration)
                        THEN w_pc' = "sleeping" /\ w_slept' = Some(w_interval)
                        ELSE w_pc' = "loop_head" /\ UNCHANGED w_slept
    /\ UNCHANGED <<w_interval, w_max_iterations, w_iteration, w_calls, w_result, varsStore, varsClient, varsRun, varsFn, varsSearch, varsStats>>

\* watch.py 70-73: search_func raises an Exception.
SearchRaises ==
    /\ w_pc = "searching"
    /\ w_outcome' = "raised"
    /\ w_pc' = "err_sleeping"
    /\ w_slept' = Some(RetryDelay(w_interval, w_failures))
    /\ w_failures' = w_failures + 1
    /\ UNCHANGED <<w_interval, w_max_iterations, w_iteration, w_best_deals, w_calls,
                   w_reported, w_result, varsStore, varsClient, varsRun, varsFn, varsSearch, varsStats>>

\* watch.py 65: the inter-iteration sleep ends.
WakeSleep ==
    /\ w_pc = "sleeping"
    /\ w_pc' = "loop_head"
    /\ w_outcome' = "woke"
    /\ UNCHANGED <<w_interval, w_max_iterations, w_iteration, w_best_deals, w_calls,
                   w_reported, w_result, w_slept, w_failures, varsStore, varsClient, varsRun, varsFn, varsSearch, varsStats>>

\* watch.py 73: the sleep of the exception handler ends.
WakeErrSleep ==
    /\ w_pc = "err_sleeping"
    /\ w_pc' = "loop_head"
    /\ w_outcome' = "woke"
    /\ UNCHANGED <<w_interval, w_max_iterations, w_iteration, w_best_deals, w_calls,
                   w_reported, w_result, w_slept, w_failures, varsStore, varsClient, varsRun, varsFn, varsSearch, varsStats>>

\* An external interruption reaches run() at the await it is suspended in, as the
\* exception the runtime delivers: KeyboardInterrupt (raised in the running frame) or
\* asyncio.CancelledError (the task cancelled by the loop's SIGINT handling).  Only
\* `except KeyboardInterrupt` of the try (watch.py 67-69) stops the loop and returns;
\* CancelledError is a BaseException no handler of run() names, and the sleep of
\* the `except Exception` handler (watch.py 73) is outside the try.
Interrupt ==
    /\ w_pc \in {"searching", "sleeping", "err_sleeping"}
    /\ \E exc \in {"KeyboardInterrupt", "CancelledError"} :
         /\ w_outcome' = exc
         /\ IF exc = "KeyboardInterrupt" /\ w_pc \in {"searching", "sleeping"}
            THEN w_pc' = "returned" /\ w_result' = Some(w_best_deals)
            ELSE w_pc' = "raised" /\ UNCHANGED w_result
    /\ UNCHANGED <<w_interval, w_max_iterations, w_iteration, w_best_deals, w_calls,
                   w_reported, w_slept, w_failures, varsStore, varsClient, varsRun, varsFn, varsSearch, varsStats>>


(***************************************************************************)
(* Polite fetch client (backend/arb_finder.py, PoliteClient)               *)
(*                                                                         *)
(* Times are kept relative to the present, which keeps the state space     *)
(* finite without bounding the clock: for a timestamp x the state holds    *)
(* time.time() - x, cut off at RATE_LIMIT_SECONDS (the code compares it    *)
(* with nothing larger), and for a sleep the time left until it ends.      *)
(***************************************************************************)

\* Program constants, times in ticks of 0.2 s.
MAX_CONCURRENCY == 6
RETRY_BASE == 3
RETRY_MAX == 3
RATE_LIMIT_SECONDS == 5
\* The constant 0.2 added to every backoff (arb_finder.py 182).
BackoffExtra == 1

\* Bounds: the tasks sharing the client and the longest time a request takes.
NTasks == 2
MaxLatency == 1

Tasks == 1..NTasks
Hosts == {"www.ebay.com", "shopgoodwill.com"}
Statuses == {200, 500, 429, 503}

Pow2(n) == IF n = 0 THEN 1 ELSE IF n = 1 THEN 2 ELSE IF n = 2 THEN 4 ELSE 8

\* backoff = RETRY_BASE * (2 ** (attempt - 1)) + 0.2
Backoff(attempt) == RETRY_BASE * Pow2(attempt - 1) + BackoffExtra

\* wait = max(0.0, RATE_LIMIT_SECONDS - (now - self._last.get(host, 0))),
\* since_last being now - self._last.get(host, 0) cut off at RATE_LIMIT_SECONDS.
ThrottleWait(since_last) ==
    LET w == RATE_LIMIT_SECONDS - since_last
    IN  IF w > 0 THEN w ELSE 0

\* A time difference one tick later, cut off at RATE_LIMIT_SECONDS.
Older(d) == IF d < RATE_LIMIT_SECONDS THEN d + 1 ELSE d

\* Where a get call is once it holds a permit of self._sem: in the throttle
\* sleep, with a request in flight, or in a backoff sleep.
Inside == {"throttle", "request", "backoff"}

IdleTask ==
    [pc |-> "idle", host |-> "", attempt |-> 0, left |-> 0, resp |-> Null]

\* A new client (arb_finder.py 155-162): self._last is empty, so that
\* now - self._last.get(host, 0) is time.time() itself, far past the cut-off.
InitClientIdle ==
    /\ c_last = [h \in Hosts |-> RATE_LIMIT_SECONDS]
    /\ c_sem = MAX_CONCURRENCY
    /\ c_tasks = [t \in Tasks |-> IdleTask]
    /\ c_prev_start = [h \in Hosts |-> Null]
    /\ c_sent = Null
    /\ c_returned = Null

\* `await self._client.get(url)` is entered: a request to host h is sent now.
SendRequest(h) ==
    /\ c_prev_start' = [c_prev_start EXCEPT ![h] = Some(0)]
    /\ c_sent' = Some([host |-> h, gap |-> c_prev_start[h]])

\* No request is sent in this step.
SendNothing ==
    /\ c_sent' = Null
    /\ UNCHANGED c_prev_start

\* get() of task t ends in this step with `result`, after `requests` requests.
Return(t, result, requests) ==
    /\ c_returned' = Some([task |-> t, result |-> result, requests |-> requests])
    /\ c_sem' = c_sem + 1

\* A variant of CallGet that does not look at the permits.
CallGetUngated(t, h) ==
    /\ c_tasks[t].pc = "idle"
    /\ c_sem' = c_sem - 1
    /\ LET wait == ThrottleWait(c_last[h])
           tk == [c_tasks[t] EXCEPT !.host = h]
       IN  IF wait # 0
           THEN /\ c_tasks' = [c_tasks EXCEPT ![t] =
                                 [tk EXCEPT !.pc = "throttle", !.left = wait]]
                /\ SendNothing
           ELSE /\ c_tasks' = [c_tasks EXCEPT ![t] =
                                 [tk EXCEPT !.pc = "request", !.attempt = 1,
                                            !.left = MaxLatency]]
                /\ SendRequest(h)
    /\ c_returned' = Null
    /\ UNCHANGED <<c_last, varsStore, varsWatch, varsRun, varsFn, varsSearch, varsStats>>

\* Task t calls get(url) with url on host h (arb_finder.py 167-176).  A caller that
\* finds no free permit waits at `async with self._sem`: it passes when one is free.
\* The throttle is computed once, here, before the retry loop.
CallGet(t, h) ==
    /\ c_tasks[t].pc = "idle"
    /\ c_sem > 0
    /\ c_sem' = c_sem - 1
    /\ LET wait == ThrottleWait(c_last[h])
           tk == [c_tasks[t] EXCEPT !.host = h]
       IN  IF wait # 0
           THEN /\ c_tasks' = [c_tasks EXCEPT ![t] =
                                 [tk EXCEPT !.pc = "throttle", !.left = wait]]
                /\ SendNothing
           ELSE /\ c_tasks' = [c_tasks EXCEPT ![t] =
                                 [tk EXCEPT !.pc = "request", !.attempt = 1,
                                            !.left = MaxLatency]]
                /\ SendRequest(h)
    /\ c_returned' = Null
    /\ UNCHANGED <<c_last, varsStore, varsWatch, varsRun, varsFn, varsSearch, varsStats>>

\* A variant of AwaitedGet for fetches started together (asyncio.gather): a
\* fetch does not wait for the one before it.
GatheredGet(t, h) == CallGet(t, h)

\* A fetch of one run_arbfinder invocation (arb_finder.py 212, 251, 291, 335 under
\* 554 and 581): the coroutine awaits each client.get before it does anything
\* else, so fetch t is called only when no other fetch of the run is under way.
AwaitedGet(t, h) ==
    /\ \A t2 \in Tasks : c_tasks[t2].pc = "idle"
    /\ CallGet(t, h)

\* Task t calls get(url) while no permit is free (arb_finder.py 167): it waits at
\* `async with self._sem`.
CallGetWaits(t, h) ==
    /\ c_tasks[t].pc = "idle"
    /\ c_sem = 0
    /\ c_tasks' = [c_tasks EXCEPT ![t] = [@ EXCEPT !.pc = "gate", !.host = h]]
    /\ SendNothing
    /\ c_returned' = Null
    /\ UNCHANGED <<c_last, c_sem, varsStore, varsWatch, varsRun, varsFn, varsSearch, varsStats>>

\* A permit is free and task t, waiting at `async with self._sem`, takes it
\* (arb_finder.py 167-176).
PassGate(t) ==
    /\ c_tasks[t].pc = "gate"
    /\ c_sem > 0
    /\ c_sem' = c_sem - 1
    /\ LET h == c_tasks[t].host
           wait == ThrottleWait(c_last[h])
       IN  IF wait # 0
           THEN /\ c_tasks' = [c_tasks EXCEPT ![t] =
                                 [@ EXCEPT !.pc = "throttle", !.left = wait]]
                /\ SendNothing
           ELSE /\ c_tasks' = [c_tasks EXCEPT ![t] =
                                 [@ EXCEPT !.pc = "request", !.attempt = 1,
                                           !.left = MaxLatency]]
                /\ SendRequest(h)
    /\ c_returned' = Null
    /\ UNCHANGED <<c_last, varsStore, varsWatch, varsRun, varsFn, varsSearch, varsStats>>

\* The rest of the get call of task t, which holds a permit, taken as one step
\* (arb_finder.py 170-187): its request, sent by now, is answered with 200, and
\* leaving `async with self._sem` gives the permit back.  The time it takes is
\* left out.
GetRunsToEnd(t) ==
    /\ c_tasks[t].pc \in Inside
    /\ c_last' = [c_last EXCEPT ![c_tasks[t].host] = 0]
    /\ IF c_tasks[t].pc = "throttle"
       THEN SendRequest(c_tasks[t].host)
       ELSE SendNothing
    /\ c_tasks' = [c_tasks EXCEPT ![t] = IdleTask]
    /\ Return(t, Some(200), 1)
    /\ UNCHANGED <<varsStore, varsWatch, varsRun, varsFn, varsSearch, varsStats>>

\* One more task than there are permits shares the client.
GateTasks == 1..(MAX_CONCURRENCY + 1)
GateHost == "www.ebay.com"

InitGate ==
    /\ c_last = [h \in Hosts |-> RATE_LIMIT_SECONDS]
    /\ c_sem = MAX_CONCURRENCY
    /\ c_tasks = [t \in GateTasks |-> IdleTask]
    /\ c_prev_start = [h \in Hosts |-> Null]
    /\ c_sent = Null
    /\ c_returned = Null

\* The throttle sleep of task t is over (arb_finder.py 172-176): attempt 1 is sent.
WakeThrottle(t) ==
    /\ c_tasks[t].pc = "throttle"
    /\ c_tasks[t].left = 0
    /\ c_tasks' = [c_tasks EXCEPT ![t] =
                      [@ EXCEPT !.pc = "request", !.attempt = 1, !.left = MaxLatency]]
    /\ SendRequest(c_tasks[t].host)
    /\ c_returned' = Null
    /\ UNCHANGED <<c_last, c_sem, varsStore, varsWatch, varsRun, varsFn, varsSearch, varsStats>>

\* The request of task t is answered with `status` (arb_finder.py 176-186).
Respond(t, status) ==
    /\ c_tasks[t].pc = "request"
    /\ c_last' = [c_last EXCEPT ![c_tasks[t].host] = 0]
    /\ IF status \in {429, 503}
       THEN /\ c_tasks' = [c_tasks EXCEPT ![t] =
                             [@ EXCEPT !.pc = "backoff", !.resp = Some(status),
                                       !.left = Backoff(c_tasks[t].attempt)]]
            /\ c_returned' = Null
            /\ UNCHANGED c_sem
       ELSE /\ c_tasks' = [c_tasks EXCEPT ![t] = IdleTask]
            /\ Return(t, Some(status), c_tasks[t].attempt)
    /\ SendNothing
    /\ UNCHANGED <<varsStore, varsWatch, varsRun, varsFn, varsSearch, varsStats>>

\* The request of task t raises in the transport (arb_finder.py 176, 181-186):
\* self._last and resp keep their values.
TransportError(t) ==
    /\ c_tasks[t].pc = "request"
    /\ c_tasks' = [c_tasks EXCEPT ![t] =
                      [@ EXCEPT !.pc = "backoff", !.left = Backoff(c_tasks[t].attempt)]]
    /\ SendNothing
    /\ c_returned' = Null
    /\ UNCHANGED <<c_last, c_sem, varsStore, varsWatch, varsRun, varsFn, varsSearch, varsStats>>

\* A variant of WakeBackoff whose loop makes one attempt more.
WakeBackoffOnceMore(t) ==
    /\ c_tasks[t].pc = "backoff"
    /\ c_tasks[t].left = 0
    /\ IF c_tasks[t].attempt <= RETRY_MAX
       THEN /\ c_tasks' = [c_tasks EXCEPT ![t] =
                             [@ EXCEPT !.pc = "request", !.attempt = @ + 1,
                                       !.left = MaxLatency]]
            /\ SendRequest(c_tasks[t].host)
            /\ c_returned' = Null
            /\ UNCHANGED c_sem
       ELSE /\ c_tasks' = [c_tasks EXCEPT ![t] = IdleTask]
            /\ Return(t, c_tasks[t].resp, c_tasks[t].attempt)
            /\ SendNothing
    /\ UNCHANGED <<c_last, varsStore, varsWatch, varsRun, varsFn, varsSearch, varsStats>>

\* The backoff sleep of task t is over (arb_finder.py 174-176, 186-187): the next
\* attempt is sent, or after attempt RETRY_MAX the loop ends and resp is returned.
WakeBackoff(t) ==
    /\ c_tasks[t].pc = "backoff"
    /\ c_tasks[t].left = 0
    /\ IF c_tasks[t].attempt < RETRY_MAX
       THEN /\ c_tasks' = [c_tasks EXCEPT ![t] =
                             [@ EXCEPT !.pc = "request", !.attempt = @ + 1,
                                       !.left = MaxLatency]]
            /\ SendRequest(c_tasks[t].host)
            /\ c_returned' = Null
            /\ UNCHANGED c_sem
       ELSE /\ c_tasks' = [c_tasks EXCEPT ![t] = IdleTask]
            /\ Return(t, c_tasks[t].resp, c_tasks[t].attempt)
            /\ SendNothing
    /\ UNCHANGED <<c_last, varsStore, varsWatch, varsRun, varsFn, varsSearch, varsStats>>

\* One tick passes.  A sleep ends when it is due and a request within MaxLatency:
\* time does not pass while a task is due.
Tick ==
    /\ \A t \in DOMAIN c_tasks : c_tasks[t].pc \in Inside => c_tasks[t].left > 0
    /\ c_tasks' = [t \in DOMAIN c_tasks |->
                      IF c_tasks[t].pc \notin Inside THEN c_tasks[t]
                      ELSE [c_tasks[t] EXCEPT !.left = @ - 1]]
    /\ c_last' = [h \in Hosts |-> Older(c_last[h])]
    /\ c_prev_start' = [h \in Hosts |->
                          IF IsNull(c_prev_start[h]) THEN Null
                          ELSE Some(Older(Val(c_prev_start[h])))]
    /\ c_sent' = Null
    /\ c_returned' = Null
    /\ UNCHANGED <<c_sem, varsStore, varsWatch, varsRun, varsFn, varsSearch, varsStats>>

(***************************************************************************)
(* Comp builder and matcher (backend/arb_finder.py)                        *)
(***************************************************************************)

\* --sim-threshold, the default.
SimThreshold == 86

\* re.sub(r"\s+", " ", title).strip().lower() on the titles of the model.
NormalizeTitle(title) ==
    CASE title = "Widget A" -> "widget a"
      [] title = "widget  a" -> "widget a"
      [] title = "Widget B" -> "widget b"
      [] title = "  " -> ""
      [] OTHER -> title

\* fuzz.token_set_ratio: 0 when one of the strings has no token, else 100 for
\* equal strings.  Two different one-word titles
\* score 100 * 2 * lcs / (len(a) + len(b)), here rounded down: "widg"/"widgets"
\* 800/11, "widgets"/"widgetsx" 1400/15, "widg"/"widgetsx" 800/12.  The score of
\* any other two different normalized titles is the library's, and is r_ratio.
token_set_ratio(a, b) ==
    IF a = "" \/ b = "" THEN 0
    ELSE IF a = b THEN 100
    ELSE CASE {a, b} = {"widg", "widgets"} -> 72
           [] {a, b} = {"widgets", "widgetsx"} -> 93
           [] {a, b} = {"widg", "widgetsx"} -> 66
           [] OTHER -> r_ratio

\* Python truthiness of a str or None.
TruthyStr(v) == ~IsNull(v) /\ Val(v) # ""

\* A price statistic is a rational [num, den], den > 0.
Rat(num, den) == [num |-> num, den |-> den]

\* round(n / d) for d > 0, ties to even (Python's round).
RoundHalfEven(n, d) ==
    LET q == n \div d
        r == n % d
    IN  IF 2 * r < d THEN q
        ELSE IF 2 * r > d THEN q + 1
        ELSE IF q % 2 = 0 THEN q ELSE q + 1

\* A variant of DiscountPct that rounds 100.0 * (price / stat - 1).
DiscountPctOfMarkup(price, stat) ==
    LET n == 10000 * (price * stat.den - stat.num)
    IN  IF stat.num > 0 THEN RoundHalfEven(n, stat.num)
        ELSE RoundHalfEven(-n, -stat.num)

\* round(100.0 * (1 - price / stat), 2) in hundredths of a percent, stat # 0.
DiscountPct(price, stat) ==
    LET n == 10000 * (stat.num - price * stat.den)
    IN  IF stat.num > 0 THEN RoundHalfEven(n, stat.num)
        ELSE RoundHalfEven(-n, -stat.num)

\* prices.sort(): insertion of x into an ascending list.
RECURSIVE InsertAsc(_, _)
InsertAsc(sorted, x) ==
    IF sorted = <<>> THEN <<x>>
    ELSE IF x < Head(sorted) THEN <<x>> \o sorted
    ELSE <<Head(sorted)>> \o InsertAsc(Tail(sorted), x)

RECURSIVE SortAsc(_)
SortAsc(xs) == IF xs = <<>> THEN <<>> ELSE InsertAsc(SortAsc(Tail(xs)), Head(xs))

RECURSIVE SumSeq(_)
SumSeq(xs) == IF xs = <<>> THEN 0 ELSE Head(xs) + SumSeq(Tail(xs))

\* The inner loop of compute_comps (arb_finder.py 433-437): the first exemplar,
\* from position k on, that scores at least the threshold; Null if none does.
RECURSIVE FirstExemplar(_, _, _, _)
FirstExemplar(nt, exemplars, k, sim_threshold) ==
    IF k > Len(exemplars) THEN Null
    ELSE IF token_set_ratio(nt, exemplars[k]) >= sim_threshold THEN Some(exemplars[k])
    ELSE FirstExemplar(nt, exemplars, k + 1, sim_threshold)

\* bins[chosen].append(price): bins is a dict in insertion order.
BinsAppend(bins, chosen, price) ==
    IF \E k \in 1..Len(bins) : bins[k].key = chosen
    THEN [k \in 1..Len(bins) |->
            IF bins[k].key = chosen
            THEN [bins[k] EXCEPT !.prices = Append(@, price)]
            ELSE bins[k]]
    ELSE Append(bins, [key |-> chosen, prices |-> <<price>>])

\* The outer loop of compute_comps (arb_finder.py 431-441) from listing i on.
RECURSIVE ClusterLoop(_, _, _, _, _)
ClusterLoop(lsts, i, exemplars, bins, sim_threshold) ==
    IF i > Len(lsts) THEN [exemplars |-> exemplars, bins |-> bins]
    ELSE LET nt == NormalizeTitle(lsts[i].title)
             found == FirstExemplar(nt, exemplars, 1, sim_threshold)
         IN  IF TruthyStr(found)
             THEN ClusterLoop(lsts, i + 1, exemplars,
                              BinsAppend(bins, Val(found), lsts[i].price), sim_threshold)
             ELSE ClusterLoop(lsts, i + 1, Append(exemplars, nt),
                              BinsAppend(bins, nt, lsts[i].price), sim_threshold)

\* A variant of CompOfBin that takes the median of an even count one position low.
CompOfBinLowMedian(bin) ==
    LET prices == SortAsc(bin.prices)
        n == Len(prices)
    IN  [key_title |-> bin.key,
         avg_price |-> Rat(SumSeq(prices), n),
         median_price |-> IF n % 2 = 1 THEN Rat(prices[n \div 2 + 1], 1)
                          ELSE Rat(prices[n \div 2] + prices[n \div 2], 2),
         count |-> n]

\* arb_finder.py 443-448: the Comp of one bin.
CompOfBin(bin) ==
    LET prices == SortAsc(bin.prices)
        n == Len(prices)
    IN  [key_title |-> bin.key,
         avg_price |-> Rat(SumSeq(prices), n),
         median_price |-> IF n % 2 = 1 THEN Rat(prices[n \div 2 + 1], 1)
                          ELSE Rat(prices[n \div 2] + prices[n \div 2 + 1], 2),
         count |-> n]

\* compute_comps: the Comps in dict order.
compute_comps(lsts, sim_threshold) ==
    IF lsts = <<>> THEN <<>>
    ELSE LET bins == ClusterLoop(lsts, 1, <<>>, <<>>, sim_threshold).bins
         IN  [k \in 1..Len(bins) |-> CompOfBin(bins[k])]

\* A variant of BestComp that keeps the last of the comps with the best score.
RECURSIVE BestCompKeepsLast(_, _, _, _, _)
BestCompKeepsLast(nt, comps, k, best_key, best_score) ==
    IF k > Len(comps) THEN [key |-> best_key, score |-> best_score]
    ELSE LET s == token_set_ratio(nt, comps[k].key_title)
         IN  IF s >= best_score
             THEN BestCompKeepsLast(nt, comps, k + 1, Some(comps[k].key_title), s)
             ELSE BestCompKeepsLast(nt, comps, k + 1, best_key, best_score)

\* The scan of match_comps_to_live (arb_finder.py 459-463) from comp k on.
RECURSIVE BestComp(_, _, _, _, _)
BestComp(nt, comps, k, best_key, best_score) ==
    IF k > Len(comps) THEN [key |-> best_key, score |-> best_score]
    ELSE LET s == token_set_ratio(nt, comps[k].key_title)
         IN  IF s > best_score
             THEN BestComp(nt, comps, k + 1, Some(comps[k].key_title), s)
             ELSE BestComp(nt, comps, k + 1, best_key, best_score)

\* comps.get(best_key)
CompsGet(comps, key) ==
    IF \E k \in 1..Len(comps) : comps[k].key_title = key
    THEN Some(comps[CHOOSE k \in 1..Len(comps) : comps[k].key_title = key])
    ELSE Null

\* The row of one live listing (arb_finder.py 458-482); raised: the division by
\* comp.median_price failed (ZeroDivisionError).
MatchRow(lst, comps, sim_threshold) ==
    LET nt == NormalizeTitle(lst.title)
        best == BestComp(nt, comps, 1, Null, -1)
        comp == IF TruthyStr(best.key) /\ best.score >= sim_threshold
                THEN CompsGet(comps, Val(best.key)) ELSE Null
        discounted == ~IsNull(comp) /\ Val(comp).avg_price.num # 0
    IN  [raised |-> discounted /\ Val(comp).median_price.num = 0,
         row |-> [source |-> lst.source, title |-> lst.title, url |-> lst.url,
                  price |-> lst.price, currency |-> lst.currency,
                  best_match_key |-> best.key, similarity |-> best.score,
                  avg_price |-> IF IsNull(comp) THEN Null ELSE Some(Val(comp).avg_price),
                  median_price |-> IF IsNull(comp) THEN Null
                                   ELSE Some(Val(comp).median_price),
                  comp_count |-> IF IsNull(comp) THEN 0 ELSE Val(comp).count,
                  discount_vs_avg_pct |->
                      IF discounted THEN Some(DiscountPct(lst.price, Val(comp).avg_price))
                      ELSE Null,
                  discount_vs_median_pct |->
                      IF discounted /\ Val(comp).median_price.num # 0
                      THEN Some(DiscountPct(lst.price, Val(comp).median_price))
                      ELSE Null]]

\* match_comps_to_live: the rows, or raised when a row's computation raised.
match_comps_to_live(live, comps, sim_threshold) ==
    LET ms == [k \in 1..Len(live) |-> MatchRow(live[k], comps, sim_threshold)]
    IN  [raised |-> \E k \in 1..Len(live) : ms[k].raised,
         rows |-> [k \in 1..Len(live) |-> ms[k].row]]

\* (r.get("discount_vs_avg_pct") or -999): None and 0.0 are falsy.
DiscountOrDefault(row) ==
    IF IsNull(row.discount_vs_avg_pct) \/ Val(row.discount_vs_avg_pct) = 0
    THEN -99900
    ELSE Val(row.discount_vs_avg_pct)

\* arb_finder.py 596-597
RECURSIVE FilterRows(_, _)
FilterRows(rows, threshold_pct) ==
    IF rows = <<>> THEN <<>>
    ELSE IF DiscountOrDefault(Head(rows)) >= Val(threshold_pct)
         THEN <<Head(rows)>> \o FilterRows(Tail(rows), threshold_pct)
         ELSE FilterRows(Tail(rows), threshold_pct)

\* rows.sort(key=..., reverse=True) is stable: a row goes behind the rows whose key
\* is not smaller.
RECURSIVE InsertDesc(_, _)
InsertDesc(sorted, row) ==
    IF sorted = <<>> THEN <<row>>
    ELSE IF DiscountOrDefault(Head(sorted)) >= DiscountOrDefault(row)
         THEN <<Head(sorted)>> \o InsertDesc(Tail(sorted), row)
         ELSE <<row>> \o sorted

RECURSIVE SortRows(_, _)
SortRows(rows, n) ==
    IF n = 0 THEN <<>> ELSE InsertDesc(SortRows(rows, n - 1), rows[n])

(***************************************************************************)
(* Orchestrator (backend/arb_finder.py, run_arbfinder)                     *)
(***************************************************************************)

\* Bounds: the listings one search of the sold-comps provider and of a live
\* provider returns.
MaxSold == 2
MaxLive == 1

SeqsUpTo(S, n) == UNION {[1..k -> S] : k \in 0..n}

\* The keys of the providers dict (arb_finder.py 527-532) and each provider's host.
ProviderNames == {"ebay_sold", "shopgoodwill", "govdeals", "governmentsurplus"}
ProviderHost(name) ==
    CASE name = "ebay_sold" -> "www.ebay.com"
      [] name = "shopgoodwill" -> "shopgoodwill.com"
      [] name = "govdeals" -> "www.govdeals.com"
      [] name = "governmentsurplus" -> "www.governmentauctions.org"

\* "shopgoodwill,govdeals,governmentsurplus" (arb_finder.py 570)
DefaultProviders == <<"shopgoodwill", "govdeals", "governmentsurplus">>

\* The values of --providers explored: None, a list with an unknown name, and a
\* list that names a provider twice.
ProvidersArgs ==
    {Null, <<"govdeals", "bogus", "shopgoodwill">>, <<"shopgoodwill", "shopgoodwill">>}

\* The values of --threshold-pct explored, in hundredths of a percent:
\* None, -1000.0, 0.0, 20.0 (the default).
ThresholdArgs == {Null, Some(-100000), Some(0), Some(2000)}

\* The scores token_set_ratio may give two different titles of the model.
RatioValues == {62, 87}

\* What EbaySoldComps.search can parse out of a page (arb_finder.py 229-231).
SoldPool ==
    { [source |-> "ebay_sold", url |-> Url("www.ebay.com", 1), title |-> "Widget A",
       price |-> 100, currency |-> "USD", condition |-> "sold", timestamp |-> 1,
       meta |-> <<"q">>],
      [source |-> "ebay_sold", url |-> Url("www.ebay.com", 2), title |-> "widget  a",
       price |-> 80, currency |-> "USD", condition |-> "sold", timestamp |-> 1,
       meta |-> <<"q">>] }

\* What the search of a live provider can parse out of its pages
\* (arb_finder.py 261-271, 304-314, 342-352).
LiveItem(name, item, title, price) ==
    [source |-> name, url |-> Url(ProviderHost(name), item), title |-> title,
     price |-> price, currency |-> "USD", condition |-> "live", timestamp |-> 1,
     meta |-> <<"q", "page">>]

ProviderPool(name) ==
    IF name = "ebay_sold" THEN SoldPool
    ELSE {LiveItem(name, 1, "Widget A", 70), LiveItem(name, 2, "Widget A", 100),
          LiveItem(name, 3, "Widget B", 130)}

\* wanted (arb_finder.py 568-572); "" and None are both falsy.
WantedOf(providers_arg) ==
    SelectSeq(IF providers_arg = <<>> THEN DefaultProviders ELSE providers_arg,
              LAMBDA p : p \in ProviderNames)

\* `for lst in ...: db_upsert_listing(args.db, lst)` from listing k on.
RECURSIVE UpsertAllListings(_, _, _, _)
UpsertAllListings(tbl, seq, lsts, k) ==
    IF k > Len(lsts) THEN [rows |-> tbl, seq |-> seq]
    ELSE UpsertAllListings(UpsertListingRows(tbl, seq, lsts[k]),
                           UpsertListingSeq(tbl, seq, lsts[k]), lsts, k + 1)

\* The comps table after the statement of db_upsert_comp (arb_finder.py 141-150);
\* the column ts, the time of the upsert, is left out.
UpsertCompRows(tbl, comp) ==
    {r \in tbl : r.key_title # comp.key_title} \cup
    {[key_title |-> comp.key_title, avg_price |-> comp.avg_price,
      median_price |-> comp.median_price, count |-> comp.count]}

\* `for comp in comps.values(): db_upsert_comp(args.db, comp)` from comp k on.
RECURSIVE UpsertAllComps(_, _, _)
UpsertAllComps(tbl, comps, k) ==
    IF k > Len(comps) THEN tbl
    ELSE UpsertAllComps(UpsertCompRows(tbl, comps[k]), comps, k + 1)

\* The sold listings of an earlier run with another query.
EarlierSold ==
    << [source |-> "ebay_sold", url |-> Url("www.ebay.com", 3), title |-> "Widget B",
        price |-> 50, currency |-> "USD", condition |-> "sold", timestamp |-> 1,
        meta |-> <<"q">>] >>

\* The database file run_arbfinder opens: a fresh one, or the one an earlier run
\* (arb_finder.py 554-566) left behind.
InitStoreOfRun ==
    \/ InitStore
    \/ /\ listings = UpsertAllListings({}, 0, EarlierSold, 1).rows
       /\ listings_seq = UpsertAllListings({}, 0, EarlierSold, 1).seq
       /\ comps_table = UpsertAllComps({}, compute_comps(EarlierSold, SimThreshold), 1)
       /\ upserted = EarlierSold

InitRunIdle ==
    /\ r_ratio = 62
    /\ r_threshold_pct = Null
    /\ r_providers = Null
    /\ r_pc = "idle"
    /\ r_client = "none"
    /\ r_sold = <<>>
    /\ r_comps = <<>>
    /\ r_wanted = <<>>
    /\ r_i = 0
    /\ r_live = <<>>
    /\ r_matched = <<>>
    /\ r_rows = <<>>
    /\ r_warnings = 0
    /\ r_calls = <<>>
    /\ r_error = ""
    /\ r_result = Null

\* run_arbfinder is called with the arguments drawn here.
InitRun ==
    /\ r_ratio \in RatioValues
    /\ r_threshold_pct \in ThresholdArgs
    /\ r_providers \in ProvidersArgs
    /\ r_pc = "init"
    /\ r_client = "none"
    /\ r_sold = <<>>
    /\ r_comps = <<>>
    /\ r_wanted = <<>>
    /\ r_i = 0
    /\ r_live = <<>>
    /\ r_matched = <<>>
    /\ r_rows = <<>>
    /\ r_warnings = 0
    /\ r_calls = <<>>
    /\ r_error = ""
    /\ r_result = Null

\* arb_finder.py 524-554: db_init, the client, the providers; the search of the
\* sold-comps provider is awaited.
RunStart ==
    /\ r_pc = "init"
    /\ r_pc' = "fetch_comps"
    /\ r_client' = "open"
    /\ UNCHANGED <<r_ratio, r_threshold_pct, r_providers, r_sold, r_comps, r_wanted, r_i,
                   r_live, r_matched, r_rows, r_warnings, r_calls, r_error, r_result,
                   varsStore, varsWatch, varsClient, varsFn, varsSearch, varsStats>>

\* arb_finder.py 554: EbaySoldComps.search returns the items it parsed.
SoldSearchReturns ==
    /\ r_pc = "fetch_comps"
    /\ \E items \in SeqsUpTo(SoldPool, MaxSold) : r_sold' = items
    /\ r_pc' = "persist_comps"
    /\ UNCHANGED <<r_ratio, r_threshold_pct, r_providers, r_client, r_comps, r_wanted, r_i,
                   r_live, r_matched, r_rows, r_warnings, r_calls, r_error, r_result,
                   varsStore, varsWatch, varsClient, varsFn, varsSearch, varsStats>>

\* arb_finder.py 212, 554: the fetch of the sold-comps page has used up its retries
\* and PoliteClient.get returned None; `.text` of None raises AttributeError in
\* EbaySoldComps.search, and nothing in run_arbfinder catches it.
SoldSearchRaises ==
    /\ r_pc = "fetch_comps"
    /\ r_pc' = "raised"
    /\ r_error' = "sold_fetch"
    /\ UNCHANGED <<r_ratio, r_threshold_pct, r_providers, r_client, r_sold, r_comps,
                   r_wanted, r_i, r_live, r_matched, r_rows, r_warnings, r_calls,
                   r_result, varsStore, varsWatch, varsClient, varsFn, varsSearch, varsStats>>

\* arb_finder.py 559-576: the sold listings and the comps are persisted, wanted is
\* computed and the provider loop is entered.
PersistComps ==
    /\ r_pc = "persist_comps"
    /\ LET up == UpsertAllListings(listings, listings_seq, r_sold, 1)
           comps == compute_comps(r_sold, SimThreshold)
       IN  /\ listings' = up.rows
           /\ listings_seq' = up.seq
           /\ upserted' = upserted \o r_sold
           /\ r_comps' = comps
           /\ comps_table' = UpsertAllComps(comps_table, comps, 1)
    /\ r_wanted' = WantedOf(r_providers)
    /\ r_live' = <<>>
    /\ r_i' = 1
    /\ r_pc' = "fetch_live"
    /\ UNCHANGED <<r_ratio, r_threshold_pct, r_providers, r_client, r_sold, r_matched,
                   r_rows, r_warnings, r_calls, r_error, r_result, varsWatch, varsClient, varsFn, varsSearch, varsStats>>

\* A variant of ProviderReturns that folds res into live without upserting it.
ProviderReturnsUnpersisted ==
    /\ r_pc = "fetch_live"
    /\ r_i <= Len(r_wanted)
    /\ \E res \in SeqsUpTo(ProviderPool(r_wanted[r_i]), MaxLive) :
         /\ r_live' = r_live \o res
         /\ r_calls' = Append(r_calls, [name |-> r_wanted[r_i], raised |-> FALSE,
                                        res |-> res])
    /\ r_i' = r_i + 1
    /\ UNCHANGED <<r_ratio, r_threshold_pct, r_providers, r_pc, r_client, r_sold, r_comps,
                   r_wanted, r_matched, r_rows, r_warnings, r_error, r_result,
                   varsStore, varsWatch, varsClient, varsFn, varsSearch, varsStats>>

\* arb_finder.py 579-587: the search of provider wanted[r_i] returns res.
ProviderReturns ==
    /\ r_pc = "fetch_live"
    /\ r_i <= Len(r_wanted)
    /\ \E res \in SeqsUpTo(ProviderPool(r_wanted[r_i]), MaxLive) :
         LET up == UpsertAllListings(listings, listings_seq, res, 1)
         IN  /\ listings' = up.rows
             /\ listings_seq' = up.seq
             /\ upserted' = upserted \o res
             /\ r_live' = r_live \o res
             /\ r_calls' = Append(r_calls, [name |-> r_wanted[r_i], raised |-> FALSE,
                                            res |-> res])
    /\ r_i' = r_i + 1
    /\ UNCHANGED <<r_ratio, r_threshold_pct, r_providers, r_pc, r_client, r_sold, r_comps,
                   r_wanted, r_matched, r_rows, r_warnings, r_error, r_result,
                   comps_table, varsWatch, varsClient, varsFn, varsSearch, varsStats>>

\* A variant of ProviderRaises in which the exception of the search leaves
\* run_arbfinder.
ProviderRaisesAborts ==
    /\ r_pc = "fetch_live"
    /\ r_i <= Len(r_wanted)
    /\ r_pc' = "raised"
    /\ r_error' = "provider"
    /\ r_calls' = Append(r_calls, [name |-> r_wanted[r_i], raised |-> TRUE, res |-> <<>>])
    /\ UNCHANGED <<r_ratio, r_threshold_pct, r_providers, r_client, r_sold, r_comps,
                   r_wanted, r_i, r_live, r_matched, r_rows, r_warnings, r_result,
                   varsStore, varsWatch, varsClient, varsFn, varsSearch, varsStats>>

\* arb_finder.py 588-589: the search of provider wanted[r_i] raises an Exception.
ProviderRaises ==
    /\ r_pc = "fetch_live"
    /\ r_i <= Len(r_wanted)
    /\ r_warnings' = r_warnings + 1
    /\ r_calls' = Append(r_calls, [name |-> r_wanted[r_i], raised |-> TRUE, res |-> <<>>])
    /\ r_i' = r_i + 1
    /\ UNCHANGED <<r_ratio, r_threshold_pct, r_providers, r_pc, r_client, r_sold, r_comps,
                   r_wanted, r_live, r_matched, r_rows, r_error, r_result,
                   varsStore, varsWatch, varsClient, varsFn, varsSearch, varsStats>>

\* arb_finder.py 594: the provider loop is over, the live listings are matched.
Match ==
    /\ r_pc = "fetch_live"
    /\ r_i > Len(r_wanted)
    /\ LET m == match_comps_to_live(r_live, r_comps, SimThreshold)
       IN  IF m.raised
           THEN /\ r_pc' = "raised"
                /\ r_error' = "match"
                /\ UNCHANGED <<r_matched, r_rows>>
           ELSE /\ r_pc' = "filter"
                /\ r_matched' = m.rows
                /\ r_rows' = m.rows
                /\ UNCHANGED r_error
    /\ UNCHANGED <<r_ratio, r_threshold_pct, r_providers, r_client, r_sold, r_comps,
                   r_wanted, r_i, r_live, r_warnings, r_calls, r_result,
                   varsStore, varsWatch, varsClient, varsFn, varsSearch, varsStats>>

\* arb_finder.py 596-597
Filter ==
    /\ r_pc = "filter"
    /\ r_rows' = IF IsNull(r_threshold_pct) THEN r_rows
                 ELSE FilterRows(r_rows, r_threshold_pct)
    /\ r_pc' = "sort"
    /\ UNCHANGED <<r_ratio, r_threshold_pct, r_providers, r_client, r_sold, r_comps,
                   r_wanted, r_i, r_live, r_matched, r_warnings, r_calls, r_error,
                   r_result, varsStore, varsWatch, varsClient, varsFn, varsSearch, varsStats>>

\* arb_finder.py 599
Sort ==
    /\ r_pc = "sort"
    /\ r_rows' = SortRows(r_rows, Len(r_rows))
    /\ r_pc' = "export"
    /\ UNCHANGED <<r_ratio, r_threshold_pct, r_providers, r_client, r_sold, r_comps,
                   r_wanted, r_i, r_live, r_matched, r_warnings, r_calls, r_error,
                   r_result, varsStore, varsWatch, varsClient, varsFn, varsSearch, varsStats>>

\* arb_finder.py 616-624: the exports asked for are written; client.close() is awaited.
ExportDone ==
    /\ r_pc = "export"
    /\ r_pc' = "closing"
    /\ UNCHANGED <<r_ratio, r_threshold_pct, r_providers, r_client, r_sold, r_comps,
                   r_wanted, r_i, r_live, r_matched, r_rows, r_warnings, r_calls, r_error,
                   r_result, varsStore, varsWatch, varsClient, varsFn, varsSearch, varsStats>>

\* arb_finder.py 616-622: open() or the write of an export raises.
ExportRaises ==
    /\ r_pc = "export"
    /\ r_pc' = "raised"
    /\ r_error' = "export"
    /\ UNCHANGED <<r_ratio, r_threshold_pct, r_providers, r_client, r_sold, r_comps,
                   r_wanted, r_i, r_live, r_matched, r_rows, r_warnings, r_calls,
                   r_result, varsStore, varsWatch, varsClient, varsFn, varsSearch, varsStats>>

\* arb_finder.py 624-625: the client is closed and rows is returned.
CloseAndReturn ==
    /\ r_pc = "closing"
    /\ r_client' = "closed"
    /\ r_result' = Some(r_rows)
    /\ r_pc' = "done"
    /\ UNCHANGED <<r_ratio, r_threshold_pct, r_providers, r_sold, r_comps, r_wanted, r_i,
                   r_live, r_matched, r_rows, r_warnings, r_calls, r_error,
                   varsStore, varsWatch, varsClient, varsFn, varsSearch, varsStats>>

(***************************************************************************)
(* compute_comps and match_comps_to_live applied to drawn inputs           *)
(***************************************************************************)

\* Bounds: the lengths of the lists given to compute_comps and match_comps_to_live.
MaxFnSold == 3
MaxFnLive == 2

\* The values of sim_threshold explored.
FnThresholds == {70, 86, 90}

FnListing(source, host, item, title, price, condition) ==
    [source |-> source, url |-> Url(host, item), title |-> title, price |-> price,
     currency |-> "USD", condition |-> condition, timestamp |-> 1, meta |-> EmptyMeta]

\* Sold listings: three one-word titles that score differently against each other,
\* a title of blanks, and the prices 0, -10 and 30000 next to 100.
FnSoldPool ==
    {FnListing("ebay_sold", "www.ebay.com", 1, "widg", 100, "sold"),
     FnListing("ebay_sold", "www.ebay.com", 2, "widgets", 100, "sold"),
     FnListing("ebay_sold", "www.ebay.com", 3, "widgetsx", 100, "sold"),
     FnListing("ebay_sold", "www.ebay.com", 4, "widgets", 0, "sold"),
     FnListing("ebay_sold", "www.ebay.com", 5, "widgets", -10, "sold"),
     FnListing("ebay_sold", "www.ebay.com", 6, "widgets", 30000, "sold"),
     FnListing("ebay_sold", "www.ebay.com", 7, "  ", 100, "sold")}

FnLivePool ==
    {FnListing("manual", "example.org", 1, "widgets", 80, "live"),
     FnListing("manual", "example.org", 2, "widgets", 100, "live"),
     FnListing("manual", "example.org", 3, "widgets", 120, "live"),
     FnListing("manual", "example.org", 4, "widgets", 29999, "live"),
     FnListing("manual", "example.org", 5, "gadget", 50, "live")}

\* The loop of compute_comps (arb_finder.py 431-441) from listing i on: the key
\* of the bin each listing's price is appended to.
RECURSIVE ChosenKeys(_, _, _, _)
ChosenKeys(lsts, i, exemplars, sim_threshold) ==
    IF i > Len(lsts) THEN <<>>
    ELSE LET nt == NormalizeTitle(lsts[i].title)
             found == FirstExemplar(nt, exemplars, 1, sim_threshold)
         IN  IF TruthyStr(found)
             THEN <<Val(found)>> \o ChosenKeys(lsts, i + 1, exemplars, sim_threshold)
             ELSE <<nt>> \o ChosenKeys(lsts, i + 1, Append(exemplars, nt), sim_threshold)

InitFnIdle ==
    /\ f_pc = "idle"
    /\ f_sold = <<>>
    /\ f_live = <<>>
    /\ f_t = SimThreshold
    /\ f_t2 = SimThreshold
    /\ f_comps = <<>>
    /\ f_keys = <<>>
    /\ f_keys2 = <<>>
    /\ f_exemplars = <<>>
    /\ f_match = [raised |-> FALSE, rows |-> <<>>]

InitFn ==
    /\ f_pc = "input"
    /\ f_sold \in SeqsUpTo(FnSoldPool, MaxFnSold)
    /\ f_live \in SeqsUpTo(FnLivePool, MaxFnLive)
    /\ f_t \in FnThresholds
    /\ f_t2 \in {t \in FnThresholds : t > f_t}
    /\ f_comps = <<>>
    /\ f_keys = <<>>
    /\ f_keys2 = <<>>
    /\ f_exemplars = <<>>
    /\ f_match = [raised |-> FALSE, rows |-> <<>>]

\* compute_comps(f_sold, sim_threshold) is called with f_t, and with f_t2.
BuildComps ==
    /\ f_pc = "input"
    /\ f_comps' = compute_comps(f_sold, f_t)
    /\ f_keys' = ChosenKeys(f_sold, 1, <<>>, f_t)
    /\ f_keys2' = ChosenKeys(f_sold, 1, <<>>, f_t2)
    /\ f_exemplars' = ClusterLoop(f_sold, 1, <<>>, <<>>, f_t).exemplars
    /\ f_pc' = "built"
    /\ UNCHANGED <<f_sold, f_live, f_t, f_t2, f_match, varsStore, varsWatch, varsClient,
                   varsRun, varsSearch, varsStats>>

\* match_comps_to_live(f_live, f_comps, f_t) is called.
MatchLive ==
    /\ f_pc = "built"
    /\ LET m == match_comps_to_live(f_live, f_comps, f_t)
       IN  f_match' = IF m.raised THEN [raised |-> TRUE, rows |-> <<>>] ELSE m
    /\ f_pc' = "matched"
    /\ UNCHANGED <<f_sold, f_live, f_t, f_t2, f_comps, f_keys, f_keys2, f_exemplars, varsStore,
                   varsWatch, varsClient, varsRun, varsSearch, varsStats>>

(***************************************************************************)
(* Provider.search applied to drawn pages                                  *)
(***************************************************************************)

\* Bounds: the blocks of one fetched page, and the largest limit.
MaxBlocks == 2
MaxLimit == 2

\* A block of a page (a card, or a row of the imported file) either yields a
\* listing or is skipped (`continue`, or the except of ManualImport).
Blocks == {[ok |-> TRUE], [ok |-> FALSE]}

SearchProviders == {"ebay_sold", "shopgoodwill", "govdeals", "governmentsurplus", "manual"}

\* The last page a provider's search asks for.
LastPage(provider) ==
    CASE provider = "shopgoodwill" -> 3
      [] provider \in {"govdeals", "governmentsurplus"} -> 2
      [] OTHER -> 1

\* The pages a search may be served.
PagesServed == 1..3

\* The listing made from block k of page `page`.
SearchItem(provider, page, k) ==
    [source |-> provider, url |-> Url(provider, 10 * page + k), title |-> "Widget A",
     price |-> 100, currency |-> "USD",
     condition |-> IF provider = "ebay_sold" THEN "sold" ELSE "live"]

\* The `for block in ...` loop of a page from block k on (arb_finder.py 214-233,
\* 248-273): a block that yields a listing is appended, and then the loop is left
\* if len(items) >= limit.
RECURSIVE BlockLoop(_, _, _, _, _, _)
BlockLoop(provider, page, blocks, k, items, limit) ==
    IF k > Len(blocks) THEN items
    ELSE IF ~blocks[k].ok THEN BlockLoop(provider, page, blocks, k + 1, items, limit)
    ELSE LET appended == Append(items, SearchItem(provider, page, k))
         IN  IF Len(appended) >= limit THEN appended
             ELSE BlockLoop(provider, page, blocks, k + 1, appended, limit)

\* EbaySoldComps.search (arb_finder.py 211-234): one page.
EbaySearch(pages, limit) == BlockLoop("ebay_sold", 1, pages[1], 1, <<>>, limit)

\* `while len(items) < limit and page <= last` (arb_finder.py 247-274, 288-318,
\* 331-356) from `page` on.
RECURSIVE PageLoop(_, _, _, _, _)
PageLoop(provider, pages, page, items, limit) ==
    IF Len(items) < limit /\ page <= LastPage(provider)
    THEN PageLoop(provider, pages, page + 1,
                  BlockLoop(provider, page, pages[page], 1, items, limit), limit)
    ELSE items

\* ManualImport.search (arb_finder.py 366-405): every row that parses, then
\* items[:limit].
ManualSearch(pages, limit) ==
    LET rows == pages[1]
        oks == SelectSeq([k \in 1..Len(rows) |-> [k |-> k, ok |-> rows[k].ok]],
                         LAMBDA b : b.ok)
        items == [j \in 1..Len(oks) |-> SearchItem("manual", 1, oks[j].k)]
    IN  SubSeq(items, 1, IF limit < Len(items) THEN limit ELSE Len(items))

InitSearch ==
    /\ s_pc = "called"
    /\ s_provider \in SearchProviders
    /\ s_pages \in [PagesServed -> SeqsUpTo(Blocks, MaxBlocks)]
    /\ s_limit \in 0..MaxLimit
    /\ s_items = <<>>

SearchEbaySold ==
    /\ s_pc = "called"
    /\ s_provider = "ebay_sold"
    /\ s_items' = EbaySearch(s_pages, s_limit)
    /\ s_pc' = "returned"
    /\ UNCHANGED <<s_provider, s_pages, s_limit, varsStore, varsWatch, varsClient, varsRun,
                   varsFn, varsStats>>

SearchPaged ==
    /\ s_pc = "called"
    /\ s_provider \in {"shopgoodwill", "govdeals", "governmentsurplus"}
    /\ s_items' = PageLoop(s_provider, s_pages, 1, <<>>, s_limit)
    /\ s_pc' = "returned"
    /\ UNCHANGED <<s_provider, s_pages, s_limit, varsStore, varsWatch, varsClient, varsRun,
                   varsFn, varsStats>>

SearchManual ==
    /\ s_pc = "called"
    /\ s_provider = "manual"
    /\ s_items' = ManualSearch(s_pages, s_limit)
    /\ s_pc' = "returned"
    /\ UNCHANGED <<s_provider, s_pages, s_limit, varsStore, varsWatch, varsClient, varsRun,
                   varsFn, varsStats>>

InitSearchIdle ==
    /\ s_pc = "idle"
    /\ s_provider = "ebay_sold"
    /\ s_pages = <<>>
    /\ s_limit = 0
    /\ s_items = <<>>

(***************************************************************************)
(* Specifications                                                          *)
(***************************************************************************)

(***************************************************************************)
(* compute_comps applied to prices with cents                              *)
(*                                                                         *)
(* Listing.price is a Python float, an IEEE 754 binary64 value: float(amt) *)
(* of the text "0.10" is the binary64 value nearest to 1/10, and sum and   *)
(* division round to the nearest binary64 value, ties to even.  A value    *)
(* is held as a sign, a mantissa of any size and the exponent of the       *)
(* mantissa's last bit; a mantissa is a natural number written in base     *)
(* LimbBase, most significant digit first.  Prices are far from the        *)
(* subnormal and the overflow range, which are left out.                   *)
(***************************************************************************)

\* The precision of a binary64 value, in bits.
MantissaBits == 53

\* The base natural numbers of any size are written in, 2^LimbBits.
LimbBits == 15
LimbBase == 32768

\* Bound: the length of the list given to compute_comps.
MaxStatsSold == 3

\* ---- natural numbers of any size ----
Strip(b) ==
    IF \A i \in 1..Len(b) : b[i] = 0 THEN <<>>
    ELSE SubSeq(b, CHOOSE i \in 1..Len(b) : b[i] # 0 /\ \A j \in 1..(i - 1) : b[j] = 0,
                Len(b))

Zeros(k) == [i \in 1..k |-> 0]
Pad(b, n) == Zeros(n - Len(b)) \o b

RECURSIVE TwoTo(_)
TwoTo(j) == IF j = 0 THEN 1 ELSE 2 * TwoTo(j - 1)

\* The number of bits of a natural n < LimbBase.
RECURSIVE BitsOf(_)
BitsOf(n) == IF n = 0 THEN 0 ELSE 1 + BitsOf(n \div 2)

BigOfNat(n) == Strip(<<n \div LimbBase, n % LimbBase>>)
BitLen(b) == IF b = <<>> THEN 0 ELSE (Len(b) - 1) * LimbBits + BitsOf(b[1])
Odd(b) == b # <<>> /\ b[Len(b)] % 2 = 1

\* The digits of A + B + c from position i up to the most significant, before acc.
RECURSIVE AddFrom(_, _, _, _, _)
AddFrom(A, B, i, c, acc) ==
    IF i = 0 THEN (IF c = 1 THEN <<1>> \o acc ELSE acc)
    ELSE AddFrom(A, B, i - 1, (A[i] + B[i] + c) \div LimbBase,
                 <<(A[i] + B[i] + c) % LimbBase>> \o acc)

BigAdd(a, b) ==
    LET n == IF Len(a) > Len(b) THEN Len(a) ELSE Len(b)
    IN  AddFrom(Pad(a, n), Pad(b, n), n, 0, <<>>)

\* The digits of A - B - c from position i up to the most significant, before acc.
RECURSIVE SubFrom(_, _, _, _, _)
SubFrom(A, B, i, c, acc) ==
    IF i = 0 THEN acc
    ELSE SubFrom(A, B, i - 1, IF A[i] - B[i] - c < 0 THEN 1 ELSE 0,
                 <<(A[i] - B[i] - c + LimbBase) % LimbBase>> \o acc)

\* a - b for a >= b.
BigSub(a, b) == Strip(SubFrom(a, Pad(b, Len(a)), Len(a), 0, <<>>))

BigLess(a, b) ==
    \/ Len(a) < Len(b)
    \/ /\ Len(a) = Len(b)
       /\ \E i \in 1..Len(a) : a[i] < b[i] /\ \A j \in 1..(i - 1) : a[j] = b[j]

\* b * k for a natural k <= LimbBase, from digit i up, with carry c.
RECURSIVE MulFrom(_, _, _, _, _)
MulFrom(b, k, i, c, acc) ==
    IF i = 0 THEN (IF c # 0 THEN <<c>> \o acc ELSE acc)
    ELSE MulFrom(b, k, i - 1, (b[i] * k + c) \div LimbBase,
                 <<(b[i] * k + c) % LimbBase>> \o acc)

BigMulSmall(b, k) == MulFrom(b, k, Len(b), 0, <<>>)

\* Long division of b by d from digit i on, with remainder r so far.
RECURSIVE DivFrom(_, _, _, _, _)
DivFrom(b, d, i, r, acc) ==
    IF i > Len(b) THEN [q |-> Strip(acc), r |-> r]
    ELSE DivFrom(b, d, i + 1, (r * LimbBase + b[i]) % d,
                 Append(acc, (r * LimbBase + b[i]) \div d))

\* Quotient and remainder of b by a natural d, 0 < d <= LimbBase.
BigDivSmall(b, d) == DivFrom(b, d, 1, 0, <<>>)

\* b * 2^k.
Shl(b, k) ==
    IF b = <<>> THEN <<>>
    ELSE BigMulSmall(b, TwoTo(k % LimbBits)) \o Zeros(k \div LimbBits)

\* b \div 2^k, and whether anything was cut off.
Shr(b, k) ==
    LET limbs == k \div LimbBits
        keep == IF Len(b) > limbs THEN SubSeq(b, 1, Len(b) - limbs) ELSE <<>>
        d == BigDivSmall(keep, TwoTo(k % LimbBits))
    IN  [q |-> d.q,
         cut |-> d.r # 0 \/ \E i \in 1..Len(b) : i > Len(b) - limbs /\ b[i] # 0]

\* ---- binary64 ----
FZero == [neg |-> FALSE, m |-> <<>>, e |-> 0]

\* The binary64 value nearest to (-1)^neg * (m + f) * 2^e, ties to even, where
\* 0 <= f < 1 and lower tells whether f > 0 (m has more than MantissaBits bits
\* whenever it does).
RoundNearestEven(neg, m, e, lower) ==
    IF m = <<>> THEN FZero
    ELSE IF BitLen(m) <= MantissaBits THEN [neg |-> neg, m |-> m, e |-> e]
    ELSE LET drop == BitLen(m) - MantissaBits
             h == Shr(m, drop - 1)
             kept == BigDivSmall(h.q, 2).q
             up == Odd(h.q) /\ (h.cut \/ lower \/ Odd(kept))
             k2 == IF up THEN BigAdd(kept, <<1>>) ELSE kept
         IN  IF BitLen(k2) > MantissaBits
             THEN [neg |-> neg, m |-> BigDivSmall(k2, 2).q, e |-> e + drop + 1]
             ELSE [neg |-> neg, m |-> k2, e |-> e + drop]

\* x + y, not rounded.
ExactSum(x, y) ==
    IF x.m = <<>> THEN y
    ELSE IF y.m = <<>> THEN x
    ELSE LET e == IF x.e < y.e THEN x.e ELSE y.e
             X == Shl(x.m, x.e - e)
             Y == Shl(y.m, y.e - e)
         IN  IF x.neg = y.neg THEN [neg |-> x.neg, m |-> BigAdd(X, Y), e |-> e]
             ELSE IF X = Y THEN FZero
             ELSE IF BigLess(X, Y) THEN [neg |-> y.neg, m |-> BigSub(Y, X), e |-> e]
             ELSE [neg |-> x.neg, m |-> BigSub(X, Y), e |-> e]

FNeg(x) == IF x.m = <<>> THEN x ELSE [x EXCEPT !.neg = ~@]
FAbs(x) == [x EXCEPT !.neg = FALSE]

\* The float operations x + y, x - y, x <= y and x / n for an int n,
\* 0 < n <= LimbBase.  The dividend of x / n is scaled so that the quotient has
\* more than MantissaBits + 1 bits.
FAdd(x, y) == LET s == ExactSum(x, y) IN RoundNearestEven(s.neg, s.m, s.e, FALSE)
FSub(x, y) == FAdd(x, FNeg(y))
FLeq(x, y) == LET d == ExactSum(y, FNeg(x)) IN d.m = <<>> \/ ~d.neg
FDivInt(x, n) ==
    IF x.m = <<>> THEN x
    ELSE LET k0 == MantissaBits + 2 + BitsOf(n) - BitLen(x.m)
             k == IF k0 > 0 THEN k0 ELSE 0
             d == BigDivSmall(Shl(x.m, k), n)
         IN  RoundNearestEven(x.neg, d.q, x.e - k, d.r # 0)

\* float(amt) for the text of a price of `cents` cents (arb_finder.py 225).
FloatOfCents(cents) == FDivInt([neg |-> FALSE, m |-> BigOfNat(cents), e |-> 0], 100)

\* sum(prices) as CPython up to 3.11 computes it: f_result += x for each item.
RECURSIVE SumLoop(_, _, _)
SumLoop(prices, k, f_result) ==
    IF k > Len(prices) THEN f_result
    ELSE SumLoop(prices, k + 1, FAdd(f_result, prices[k]))

\* One step of the compensated sum of CPython from 3.12 on (Neumaier): the item
\* x is added to f_result and what the addition lost is added to c.
NeumaierStep(f_result, c, x) ==
    [f_result |-> FAdd(f_result, x),
     c |-> IF FLeq(FAbs(x), FAbs(f_result))
           THEN FAdd(c, FAdd(FSub(f_result, FAdd(f_result, x)), x))
           ELSE FAdd(c, FAdd(FSub(x, FAdd(f_result, x)), f_result))]

\* sum(prices) as CPython from 3.12 on computes it.
RECURSIVE SumNeumaier(_, _, _)
SumNeumaier(prices, k, acc) ==
    IF k > Len(prices)
    THEN (IF acc.c.m # <<>> THEN FAdd(acc.f_result, acc.c) ELSE acc.f_result)
    ELSE SumNeumaier(prices, k + 1, NeumaierStep(acc.f_result, acc.c, prices[k]))

SumAlgorithms == {"loop", "neumaier"}

sum(alg, prices) ==
    IF alg = "loop" THEN SumLoop(prices, 1, FZero)
    ELSE SumNeumaier(prices, 1, [f_result |-> FZero, c |-> FZero])

\* arb_finder.py 443-448: the Comp of one bin, in binary64.
CompOfBinFloat(alg, bin) ==
    LET cents == SortAsc(bin.prices)
        n == Len(cents)
        prices == [i \in 1..n |-> FloatOfCents(cents[i])]
    IN  [key_title |-> bin.key,
         avg_price |-> FDivInt(sum(alg, prices), n),
         median_price |-> IF n % 2 = 1 THEN prices[n \div 2 + 1]
                          ELSE FDivInt(FAdd(prices[n \div 2], prices[n \div 2 + 1]), 2),
         count |-> n]

\* compute_comps on float prices: the Comps in dict order.
compute_comps_float(alg, lsts, sim_threshold) ==
    IF lsts = <<>> THEN <<>>
    ELSE LET bins == ClusterLoop(lsts, 1, <<>>, <<>>, sim_threshold).bins
         IN  [k \in 1..Len(bins) |-> CompOfBinFloat(alg, bins[k])]

\* Sold listings priced $0.10, $19.99 and $25.00.
StatsSoldPool ==
    {FnListing("ebay_sold", "www.ebay.com", 1, "widgets", 10, "sold"),
     FnListing("ebay_sold", "www.ebay.com", 2, "widgets", 1999, "sold"),
     FnListing("ebay_sold", "www.ebay.com", 3, "widgets", 2500, "sold"),
     FnListing("ebay_sold", "www.ebay.com", 4, "widg", 10, "sold"),
     FnListing("ebay_sold", "www.ebay.com", 5, "widg", 1999, "sold")}

InitStatsIdle ==
    /\ x_pc = "idle"
    /\ x_sold = <<>>
    /\ x_sum = "loop"
    /\ x_comps = <<>>
    /\ x_keys = <<>>

\* compute_comps is about to be called with the listings drawn here.
InitStats ==
    /\ x_pc = "input"
    /\ x_sold \in SeqsUpTo(StatsSoldPool, MaxStatsSold)
    /\ x_sum \in SumAlgorithms
    /\ x_comps = <<>>
    /\ x_keys = <<>>

\* compute_comps(x_sold) with the default sim_threshold returns.
BuildCompsFloat ==
    /\ x_pc = "input"
    /\ x_comps' = compute_comps_float(x_sum, x_sold, SimThreshold)
    /\ x_keys' = ChosenKeys(x_sold, 1, <<>>, SimThreshold)
    /\ x_pc' = "built"
    /\ UNCHANGED <<x_sold, x_sum, varsStore, varsWatch, varsClient, varsRun, varsFn,
                   varsSearch>>

InitStoreSpec == InitStore /\ InitWatchIdle /\ InitClientIdle /\ InitRunIdle /\ InitFnIdle /\ InitSearchIdle /\ InitStatsIdle
NextStore == StoreUpsert \/ db_init
SpecStore == InitStoreSpec /\ [][NextStore]_vars

InitWatchSpec == InitStore /\ InitWatch /\ InitClientIdle /\ InitRunIdle /\ InitFnIdle /\ InitSearchIdle /\ InitStatsIdle
NextWatch ==
    \/ EnterIteration
    \/ SearchReturns
    \/ SearchRaises
    \/ WakeSleep
    \/ WakeErrSleep
    \/ Interrupt
SpecWatch == InitWatchSpec /\ [][NextWatch]_vars

InitClientSpec == InitStore /\ InitWatchIdle /\ InitClientIdle /\ InitRunIdle /\ InitFnIdle /\ InitSearchIdle /\ InitStatsIdle
NextClient ==
    \/ \E t \in Tasks, h \in Hosts : CallGet(t, h)
    \/ \E t \in Tasks : WakeThrottle(t)
    \/ \E t \in Tasks, status \in Statuses : Respond(t, status)
    \/ \E t \in Tasks : TransportError(t)
    \/ \E t \in Tasks : WakeBackoff(t)
    \/ Tick
SpecClient == InitClientSpec /\ [][NextClient]_vars

\* The fetches of one run_arbfinder invocation on its client.
NextSequential ==
    \/ \E t \in Tasks, h \in Hosts : AwaitedGet(t, h)
    \/ \E t \in Tasks : WakeThrottle(t)
    \/ \E t \in Tasks, status \in Statuses : Respond(t, status)
    \/ \E t \in Tasks : TransportError(t)
    \/ \E t \in Tasks : WakeBackoff(t)
    \/ Tick
SpecSequential == InitClientSpec /\ [][NextSequential]_vars

InitRunSpec == InitStoreOfRun /\ InitWatchIdle /\ InitClientIdle /\ InitRun /\ InitFnIdle /\ InitSearchIdle /\ InitStatsIdle
NextRun ==
    \/ RunStart
    \/ SoldSearchReturns
    \/ SoldSearchRaises
    \/ PersistComps
    \/ ProviderReturns
    \/ ProviderRaises
    \/ Match
    \/ Filter
    \/ Sort
    \/ ExportDone
    \/ ExportRaises
    \/ CloseAndReturn
SpecRun == InitRunSpec /\ [][NextRun]_vars

InitFnSpec ==
    InitStore /\ InitWatchIdle /\ InitClientIdle /\ InitRunIdle /\ InitFn /\ InitSearchIdle /\ InitStatsIdle
NextFn == BuildComps \/ MatchLive
SpecFn == InitFnSpec /\ [][NextFn]_vars

\* The scheduling of the event loop and the transport: time passes, a sleep that
\* is over is left, and every request is answered or fails (httpx raises once
\* HTTP_TIMEOUT is over).
FairClient ==
    /\ WF_vars(Tick)
    /\ \A t \in Tasks :
          /\ WF_vars(WakeThrottle(t))
          /\ WF_vars(WakeBackoff(t))
          /\ WF_vars(TransportError(t) \/ \E status \in Statuses : Respond(t, status))
SpecClientFair == SpecClient /\ FairClient

\* Seven tasks call get for urls of one host; what a call does once it holds a
\* permit is one step.
InitGateSpec ==
    InitStore /\ InitWatchIdle /\ InitGate /\ InitRunIdle /\ InitFnIdle /\ InitSearchIdle /\ InitStatsIdle
NextGate ==
    \/ \E t \in GateTasks : CallGet(t, GateHost)
    \/ \E t \in GateTasks : CallGetWaits(t, GateHost)
    \/ \E t \in GateTasks : PassGate(t)
    \/ \E t \in GateTasks : GetRunsToEnd(t)
SpecGate == InitGateSpec /\ [][NextGate]_vars

InitSearchSpec ==
    InitStore /\ InitWatchIdle /\ InitClientIdle /\ InitRunIdle /\ InitFnIdle /\ InitSearch /\ InitStatsIdle
NextSearch == SearchEbaySold \/ SearchPaged \/ SearchManual
SpecSearch == InitSearchSpec /\ [][NextSearch]_vars

InitStatsSpec ==
    InitStore /\ InitWatchIdle /\ InitClientIdle /\ InitRunIdle /\ InitFnIdle /\ InitSearchIdle /\ InitStats
NextStats == BuildCompsFloat
SpecStats == InitStatsSpec /\ [][NextStats]_vars

(***************************************************************************)
(* Properties                                                              *)
(***************************************************************************)

\* The row stored for url u (the table holds at most one).
RowOf(u) == CHOOSE r \in listings : r.url = u

\* The last Listing upserted for url u.
LastUpserted(u) ==
    LET idx == {i \in 1..Len(upserted) : upserted[i].url = u}
    IN  upserted[CHOOSE i \in idx : \A j \in idx : j <= i]

\* C1: after upsert(L1); upsert(L2) with the same url, the single row stored for
\* that url holds every field of L2 (source, title, price, currency, condition,
\* timestamp, meta) and nothing of L1, also when the sources differ.
C1_RowHoldsLastUpsert ==
    \A u \in {upserted[i].url : i \in 1..Len(upserted)} \ {NoUrl} :
        /\ Cardinality({r \in listings : r.url = u}) = 1
        /\ LET r == RowOf(u)
               l == LastUpserted(u)
           IN  /\ r.source = l.source
               /\ r.title = l.title
               /\ r.price = l.price
               /\ r.currency = l.currency
               /\ r.condition = l.condition
               /\ r.ts = l.timestamp
               /\ r.meta_json = json_dumps(l.meta)

\* C2: for any interleaving of get calls on one client, any two requests sent to the
\* same host start at least RATE_LIMIT_SECONDS apart.
C2_SameHostRequestsSpaced ==
    (~IsNull(c_sent) /\ ~IsNull(Val(c_sent).gap)) =>
        Val(Val(c_sent).gap) >= RATE_LIMIT_SECONDS

\* C5: no url is reported more than once by one WatchMode instance: best_deals never
\* holds two entries with the same url, also when one iteration's results contain the
\* same qualifying url twice.
C5_NoUrlReportedTwice ==
    \A i, j \in 1..Len(w_best_deals) :
        i # j => w_best_deals[i].url # w_best_deals[j].url

\* C6: with an iteration cap N (any integer N >= 0, not None) run() invokes the
\* run-once function at most N times, and has returned the accumulated deals once
\* it has stopped.
C6_AtMostCapInvocations ==
    ~IsNull(w_max_iterations) =>
        /\ w_calls <= Val(w_max_iterations)
        /\ (w_pc = "returned" => w_result = Some(w_best_deals))

\* C7: an interruption delivered while run() is suspended (in the run-once call, in
\* the inter-iteration sleep or in the sleep after a failed iteration) makes run()
\* stop and return the deals accumulated so far.  Stated for the interruption the
\* code itself names, KeyboardInterrupt.
C7_InterruptReturnsDeals ==
    w_outcome = "KeyboardInterrupt" =>
        /\ w_pc = "returned"
        /\ w_result = Some(w_best_deals)

\* C8: when the run-once function raises, run() does not terminate: it sleeps exactly
\* the configured interval (the same after every consecutive failure), keeps the deals
\* accumulated so far, and after the sleep is back at the head of the loop, where the
\* next iteration starts unless the iteration cap is exceeded.
C8_FailureSleepsIntervalAndContinues ==
    [][ /\ (w_pc = "searching" /\ w_outcome' = "raised") =>
              /\ w_pc' = "err_sleeping"
              /\ w_slept' = Some(w_interval)
              /\ w_best_deals' = w_best_deals
              /\ w_result' = Null
        /\ (w_pc = "err_sleeping" /\ w_outcome' = "woke") =>
              /\ w_pc' = "loop_head"
              /\ w_best_deals' = w_best_deals
              /\ w_result' = Null
        /\ (/\ w_pc = "loop_head"
            /\ IsNull(w_max_iterations) \/ w_iteration + 1 <= Val(w_max_iterations)) =>
              /\ w_pc' = "searching"
              /\ w_iteration' = w_iteration + 1
              /\ w_best_deals' = w_best_deals
      ]_vars

\* C8 witness: the run-once function has raised in two consecutive iterations after
\* deals were accumulated, and run() is in the handler's sleep.
C8_Witness ==
    /\ w_pc = "err_sleeping"
    /\ w_outcome = "raised"
    /\ w_failures >= 2
    /\ w_best_deals # <<>>

\* C9: best_deals holds exactly the deals that have been reported: a row is appended
\* only in an iteration that also reports it, also when the iteration's results
\* contain a row whose discount_vs_avg_pct is null.
C9_BestDealsAreTheReported ==
    w_best_deals = w_reported


\* The listings of the provider calls that did not raise, in call order.
RECURSIVE LiveOf(_)
LiveOf(calls) ==
    IF calls = <<>> THEN <<>>
    ELSE (IF Head(calls).raised THEN <<>> ELSE Head(calls).res) \o LiveOf(Tail(calls))

RaisingCalls == {k \in 1..Len(r_calls) : r_calls[k].raised}

\* The rows run_arbfinder derives from the listings lsts.
RowsDerivedFrom(lsts) ==
    LET rows == match_comps_to_live(lsts, r_comps, SimThreshold).rows
        kept == IF IsNull(r_threshold_pct) THEN rows ELSE FilterRows(rows, r_threshold_pct)
    IN  SortRows(kept, Len(kept))

\* C3: a fetch failure of the sold-comps provider (the client handed back no
\* response after its retries) does not abort the run: run_arbfinder is never
\* ended by the exception of the sold-comps search.
C3_SoldFetchFailureDoesNotAbort == ~(r_pc = "raised" /\ r_error = "sold_fetch")

AtLeast(rows, T) ==
    SelectSeq(rows, LAMBDA r : ~IsNull(r.discount_vs_avg_pct) /\ Val(r.discount_vs_avg_pct) >= T)

\* C10: after the filter with a minimum discount T the remaining rows are exactly
\* the matched rows whose discount_vs_avg_pct is non-null and >= T, whatever T
\* and the discounts are; a row with a null discount is never kept.
C10_FilterKeepsExactlyAtLeastT ==
    (r_pc = "sort" /\ ~IsNull(r_threshold_pct)) =>
        r_rows = AtLeast(r_matched, Val(r_threshold_pct))


\* rows is in descending order of discount_vs_avg_pct, the rows without a
\* discount behind every row that has one.
OrderedByDiscount(rows) ==
    \A i, j \in 1..Len(rows) :
        i < j =>
            /\ IsNull(rows[i].discount_vs_avg_pct) => IsNull(rows[j].discount_vs_avg_pct)
            /\ (~IsNull(rows[i].discount_vs_avg_pct) /\ ~IsNull(rows[j].discount_vs_avg_pct))
                  => Val(rows[i].discount_vs_avg_pct) >= Val(rows[j].discount_vs_avg_pct)

\* C11: the rows run_arbfinder returns are ordered by discount_vs_avg_pct
\* descending, every row with a null discount after every row that has a
\* discount, whatever the discounts are (0.0 and negative ones included).
C11_ReturnedRowsOrdered == r_pc = "done" => OrderedByDiscount(Val(r_result))

\* C12: match_comps_to_live returns exactly one row per live listing, in input
\* order, for every input (comps with median_price = 0 and avg_price > 0
\* included); it never fails on one listing.
C12_OneRowPerLiveListing ==
    f_pc = "matched" =>
        /\ ~f_match.raised
        /\ Len(f_match.rows) = Len(f_live)
        /\ \A k \in 1..Len(f_live) :
              /\ f_match.rows[k].url = f_live[k].url
              /\ f_match.rows[k].title = f_live[k].title
              /\ f_match.rows[k].price = f_live[k].price

\* The number of listings in the cluster of listing k, keys being the bin key of
\* each listing.
ClusterSize(keys, k) == Cardinality({j \in 1..Len(keys) : keys[j] = keys[k]})

\* C13: for the same ordered sold listings and thresholds f_t < f_t2, the cluster
\* that contains a listing at f_t2 has no more members than the cluster that
\* contains it at f_t.
C13_HigherThresholdNeverEnlargesCluster ==
    f_pc \in {"built", "matched"} =>
        \A k \in 1..Len(f_sold) : ClusterSize(f_keys2, k) <= ClusterSize(f_keys, k)

\* The best-scoring comp of a live listing meets the threshold and its avg_price
\* is strictly positive.
QualifyingMatch(lst) ==
    LET best == BestComp(NormalizeTitle(lst.title), f_comps, 1, Null, -1)
    IN  /\ ~IsNull(best.key)
        /\ best.score >= f_t
        /\ Val(CompsGet(f_comps, Val(best.key))).avg_price.num > 0

\* C17: the two discounts of a row are non-null exactly when the best-scoring
\* comp meets the similarity threshold and its avg_price is strictly positive,
\* and null in every other case.
C17_DiscountsNonNullIffQualifying ==
    (f_pc = "matched" /\ ~f_match.raised) =>
        \A k \in 1..Len(f_live) :
            /\ ~IsNull(f_match.rows[k].discount_vs_avg_pct) <=> QualifyingMatch(f_live[k])
            /\ ~IsNull(f_match.rows[k].discount_vs_median_pct) <=> QualifyingMatch(f_live[k])

Abs(x) == IF x < 0 THEN -x ELSE x

\* d, in hundredths of a percent, is 100 * (1 - price / stat) rounded to 2
\* decimals: no hundredth is nearer.
IsRoundedDiscount(d, price, stat) ==
    2 * Abs(d * stat.num - 10000 * (stat.num - price * stat.den)) <= stat.num

\* d has the sign the rounding allows: positive only when price < stat, negative
\* only when price > stat, 0 when they are equal.
SignFollowsPrice(d, price, stat) ==
    /\ d > 0 => price * stat.den < stat.num
    /\ d < 0 => price * stat.den > stat.num
    /\ price * stat.den = stat.num => d = 0

\* d is positive exactly when price < stat and negative exactly when price > stat.
SignExactlyFollowsPrice(d, price, stat) ==
    /\ d > 0 <=> price * stat.den < stat.num
    /\ d < 0 <=> price * stat.den > stat.num
    /\ d = 0 <=> price * stat.den = stat.num

\* The rows of a qualifying match whose comp statistic is positive.
DiscountedRows(field, stat) ==
    {k \in 1..Len(f_match.rows) :
        /\ ~IsNull(f_match.rows[k][field])
        /\ Val(f_match.rows[k].avg_price).num > 0
        /\ Val(f_match.rows[k][stat]).num > 0}

\* C20, as amended: for a qualifying match discount_vs_avg_pct is
\* 100 * (1 - price / avg_price) rounded to 2 decimals, and
\* discount_vs_median_pct the same with median_price; it is positive only when
\* price < avg_price, negative only when price > avg_price and 0 when they are
\* equal (and whenever the difference rounds to 0.00); price 80, 100, 120
\* against 100 give 20.0, 0.0, -20.0.
C20_DiscountIsRoundedRatio ==
    (f_pc = "matched" /\ ~f_match.raised) =>
        /\ \A k \in DiscountedRows("discount_vs_avg_pct", "avg_price") :
              LET row == f_match.rows[k]
                  d == Val(row.discount_vs_avg_pct)
                  avg == Val(row.avg_price)
              IN  /\ IsRoundedDiscount(d, row.price, avg)
                  /\ SignFollowsPrice(d, row.price, avg)
                  /\ (avg.num = 100 * avg.den /\ row.price = 80) => d = 2000
                  /\ (avg.num = 100 * avg.den /\ row.price = 100) => d = 0
                  /\ (avg.num = 100 * avg.den /\ row.price = 120) => d = -2000
        /\ \A k \in DiscountedRows("discount_vs_median_pct", "median_price") :
              LET row == f_match.rows[k]
                  d == Val(row.discount_vs_median_pct)
                  median == Val(row.median_price)
              IN  /\ IsRoundedDiscount(d, row.price, median)
                  /\ SignFollowsPrice(d, row.price, median)

\* C20 witness: listings at 80 and at 120 were matched against an avg_price of
\* 100 and got the discounts 20.0 and -20.0.
C20_Witness ==
    /\ f_pc = "matched"
    /\ ~f_match.raised
    /\ Len(f_match.rows) = 2
    /\ \A k \in 1..2 : /\ ~IsNull(f_match.rows[k].avg_price)
                       /\ Val(f_match.rows[k].avg_price) = Rat(100, 1)
    /\ f_match.rows[1].price = 80
    /\ f_match.rows[1].discount_vs_avg_pct = Some(2000)
    /\ f_match.rows[2].price = 120
    /\ f_match.rows[2].discount_vs_avg_pct = Some(-2000)

\* C20 as stated: discount_vs_avg_pct is positive exactly when price < avg_price,
\* 0 exactly when they are equal and negative exactly when price > avg_price.
C20_SignExactlyFollowsPrice ==
    (f_pc = "matched" /\ ~f_match.raised) =>
        \A k \in DiscountedRows("discount_vs_avg_pct", "avg_price") :
            SignExactlyFollowsPrice(Val(f_match.rows[k].discount_vs_avg_pct),
                                    f_match.rows[k].price, Val(f_match.rows[k].avg_price))

\* The get calls that hold a permit of the semaphore.
InsideTasks == {t \in DOMAIN c_tasks : c_tasks[t].pc \in Inside}

\* C14: at most MAX_CONCURRENCY get calls of one client are past the gate (in the
\* throttle sleep, with a request in flight, or backing off), each holding one
\* of the permits; a call waiting at the gate has issued no request.
C14_AtMostMaxConcurrencyInside ==
    /\ Cardinality(InsideTasks) <= MAX_CONCURRENCY
    /\ c_sem = MAX_CONCURRENCY - Cardinality(InsideTasks)
    /\ \A t \in DOMAIN c_tasks : c_tasks[t].pc = "gate" => c_tasks[t].attempt = 0

\* C14 witness: six calls are past the gate and a seventh waits at it.
C14_Witness ==
    /\ Cardinality(InsideTasks) = MAX_CONCURRENCY
    /\ \E t \in DOMAIN c_tasks : c_tasks[t].pc = "gate"

\* C15: every get call ends, after at most RETRY_MAX requests; a further
\* attempt is made only out of the backoff that follows a 429/503 response or a
\* transport exception, and a call never goes on with a response of another
\* status (it is returned at once).
C15_GetEndsWithinRetryMax ==
    /\ [](\A t \in Tasks :
            /\ c_tasks[t].attempt <= RETRY_MAX
            /\ ~IsNull(c_tasks[t].resp) => Val(c_tasks[t].resp) \in {429, 503})
    /\ [](~IsNull(c_returned) => Val(c_returned).requests <= RETRY_MAX)
    /\ [][\A t \in Tasks :
            /\ (c_tasks[t].attempt >= 1 /\ c_tasks'[t].attempt > c_tasks[t].attempt)
                  => c_tasks[t].pc = "backoff"
            /\ (c_tasks[t].pc # "backoff" /\ c_tasks'[t].pc = "backoff")
                  => /\ c_tasks[t].pc = "request"
                     /\ \/ c_tasks'[t].resp = c_tasks[t].resp
                        \/ Val(c_tasks'[t].resp) \in {429, 503}]_vars
    /\ \A t \in Tasks : (c_tasks[t].pc # "idle") ~> (c_tasks[t].pc = "idle")

\* C15 witness: a get call has just ended after RETRY_MAX requests.
C15_Witness == ~IsNull(c_returned) /\ Val(c_returned).requests = RETRY_MAX

UpsertedUrls == {upserted[i].url : i \in 1..Len(upserted)}

\* C19: after any sequence of db_upsert_listing calls the listings table holds
\* exactly one row per distinct url ever upserted.
C19_OneRowPerUpsertedUrl ==
    /\ {r.url : r \in listings} = UpsertedUrls
    /\ \A u \in UpsertedUrls : Cardinality({r \in listings : r.url = u}) = 1

\* The row db_upsert_comp stores for a Comp.
CompRow(comp) ==
    [key_title |-> comp.key_title, avg_price |-> comp.avg_price,
     median_price |-> comp.median_price, count |-> comp.count]

\* C16: once a run has persisted its comps, the comps table equals the Comp map
\* built in that run; no comp row of an earlier run remains.
C16_CompsTableIsThisRunsComps ==
    r_pc \in {"fetch_live", "filter", "sort", "export", "closing", "done"} =>
        comps_table = {CompRow(r_comps[k]) : k \in 1..Len(r_comps)}

\* C18: for every provider and every limit >= 0, search returns at most limit
\* listings (none when limit = 0), whatever the pages hold.
C18_SearchReturnsAtMostLimit == s_pc = "returned" => Len(s_items) <= s_limit

\* The positions in f_sold of the listings of the cluster with key `key`.
ClusterOf(key) == {k \in 1..Len(f_sold) : f_keys[k] = key}

\* The rationals a and b are equal.
RatEq(a, b) == a.num * b.den = b.num * a.den

\* m is the median of the prices at the positions ks: with an odd count the
\* price that has as many positions ordered before it as after it, with an even
\* count the mean of the two prices next to the middle.
IsMedianOf(m, ks) ==
    LET n == Cardinality(ks)
        Before(k) == {j \in ks : \/ f_sold[j].price < f_sold[k].price
                                 \/ (f_sold[j].price = f_sold[k].price /\ j < k)}
        AtRank(i) == CHOOSE k \in ks : Cardinality(Before(k)) = i - 1
    IN  IF n % 2 = 1
        THEN RatEq(m, Rat(f_sold[AtRank((n + 1) \div 2)].price, 1))
        ELSE RatEq(m, Rat(f_sold[AtRank(n \div 2)].price
                            + f_sold[AtRank(n \div 2 + 1)].price, 2))

RECURSIVE SumOver(_)
SumOver(ks) ==
    IF ks = {} THEN 0
    ELSE LET k == CHOOSE j \in ks : TRUE IN f_sold[k].price + SumOver(ks \ {k})

C24_FirstQualifyingExemplar ==
    f_pc \in {"built", "matched"} =>
        /\ \A i, j \in 1..Len(f_exemplars) : i # j => f_exemplars[i] # f_exemplars[j]
        /\ Len(f_comps) = Len(f_exemplars)
        /\ \A c \in 1..Len(f_comps) : f_comps[c].key_title = f_exemplars[c]
        /\ \A k \in 1..Len(f_sold) :
              LET nt == NormalizeTitle(f_sold[k].title)
              IN  \E i \in 1..Len(f_exemplars) :
                      /\ f_exemplars[i] = f_keys[k]
                      /\ f_keys[k] # nt => token_set_ratio(nt, f_keys[k]) >= f_t
                      /\ \A j \in 1..(i - 1) : token_set_ratio(nt, f_exemplars[j]) < f_t

\* The score of comp c against the normalized title of live listing k.
ScoreOf(k, c) == token_set_ratio(NormalizeTitle(f_live[k].title), f_comps[c].key_title)

\* The first comp, in comp-map order, with the highest score for live listing k.
FirstBest(k) ==
    CHOOSE c \in 1..Len(f_comps) :
        /\ \A d \in 1..Len(f_comps) : ScoreOf(k, d) <= ScoreOf(k, c)
        /\ \A d \in 1..(c - 1) : ScoreOf(k, d) < ScoreOf(k, c)

\* C25: the row of a live listing names the comp with the highest score, the
\* first such comp in comp-map order on ties; when that score is below the
\* threshold, or there is no comp (similarity -1), avg_price and median_price
\* are null and comp_count is 0; otherwise the statistics are that comp's.
C25_BestCompFirstOnTies ==
    (f_pc = "matched" /\ ~f_match.raised) =>
        \A k \in 1..Len(f_live) :
            LET row == f_match.rows[k]
            IN  IF f_comps = <<>>
                THEN /\ row.similarity = -1
                     /\ IsNull(row.best_match_key)
                     /\ IsNull(row.avg_price) /\ IsNull(row.median_price)
                     /\ row.comp_count = 0
                ELSE LET comp == f_comps[FirstBest(k)]
                     IN  /\ row.similarity = ScoreOf(k, FirstBest(k))
                         /\ row.best_match_key = Some(comp.key_title)
                         /\ row.similarity < f_t =>
                               /\ IsNull(row.avg_price) /\ IsNull(row.median_price)
                               /\ row.comp_count = 0
                               /\ IsNull(row.discount_vs_avg_pct)
                               /\ IsNull(row.discount_vs_median_pct)
                         /\ (row.similarity >= f_t /\ comp.key_title # "") =>
                               /\ row.avg_price = Some(comp.avg_price)
                               /\ row.median_price = Some(comp.median_price)
                               /\ row.comp_count = comp.count

\* C25 witness: a listing that scores the same against two comps was matched
\* and its row names the first of them.
C25_Witness ==
    /\ f_pc = "matched"
    /\ ~f_match.raised
    /\ Len(f_comps) = 2
    /\ \E k \in 1..Len(f_live) :
          /\ ScoreOf(k, 1) = ScoreOf(k, 2)
          /\ ScoreOf(k, 1) > 0
          /\ f_match.rows[k].best_match_key = Some(f_comps[1].key_title)

\* C22: within one get call every attempt, each retry after a backoff included,
\* first waits until RATE_LIMIT_SECONDS have passed since the host's last
\* request: a retry never starts less than RATE_LIMIT_SECONDS after the
\* previous request to that host.
C22_RetryWaitsRateLimit ==
    [][\A t \in Tasks :
          (c_tasks[t].pc = "backoff" /\ c_tasks'[t].pc = "request") =>
              Val(c_prev_start[c_tasks[t].host]) >= RATE_LIMIT_SECONDS]_vars

\* C23: after every request attempt of get, whether it gave a normal response,
\* a 429/503 response or a transport exception, the host's last-request time
\* has been set to the time of that attempt.
C23_LastRecordedAfterEveryAttempt ==
    [][\A t \in Tasks :
          (c_tasks[t].pc = "request" /\ c_tasks'[t].pc # "request") =>
              c_last'[c_tasks[t].host] = 0]_vars

\* match_comps_to_live of the run has been called (arb_finder.py 594).
MatchStarted ==
    \/ r_pc \in {"filter", "sort", "export", "closing", "done"}
    \/ r_pc = "raised" /\ r_error \in {"match", "export"}

\* Listing l has been upserted and the listings table holds a row for its url.
Persisted(l) ==
    /\ l \in Range(upserted)
    /\ \E r \in listings : r.url = l.url

\* C26: every live listing that reaches the matcher has been upserted before:
\* the listings of a provider call are upserted by the time they are in the
\* live set, and matching starts only after every selected provider has been
\* processed and the sold listings and the comps have been persisted.
C26_LiveUpsertedBeforeMatch ==
    /\ \A k \in 1..Len(r_live) : Persisted(r_live[k])
    /\ MatchStarted =>
          /\ r_i > Len(r_wanted)
          /\ Len(r_calls) = Len(r_wanted)
          /\ \A k \in 1..Len(r_calls) : r_calls[k].name = r_wanted[k]
          /\ \A k \in 1..Len(r_sold) : Persisted(r_sold[k])
          /\ \A c \in 1..Len(r_comps) : CompRow(r_comps[c]) \in comps_table

\* C26 witness: matching has started on live listings of two provider calls,
\* with sold listings and comps.
C26_Witness ==
    /\ r_pc = "filter"
    /\ Len(r_live) >= 2
    /\ Len(r_sold) >= 1
    /\ Len(r_comps) >= 1

\* C27: every run_arbfinder invocation that created a PoliteClient has closed it
\* when the invocation ends, on every exit path: normal return, sold-comps fetch
\* failure, matcher error, export error.
C27_ClientClosedOnEveryExit ==
    r_pc \in {"done", "raised"} => r_client = "closed"

\* C30: db_upsert_listing for url u changes no row whose url differs from u;
\* when u is already present it updates that row in place, keeping its id and
\* adding no row; every row keeps its id and the number of rows never decreases.
C30_UpsertUpdatesInPlace ==
    [][upserted' # upserted =>
          LET l == upserted'[Len(upserted')]
              u == l.url
          IN  /\ \A r \in listings : r.url # u => r \in listings'
              /\ \A r \in listings :
                    r.url = u =>
                        /\ ConflictUpdatedRow(r, l) \in listings'
                        /\ Cardinality(listings') = Cardinality(listings)
              /\ \A r \in listings : \E r2 \in listings' : r2.id = r.id /\ r2.url = r.url
              /\ Cardinality(listings') >= Cardinality(listings)]_vars

\* The fetches whose request is in flight.
InFlight == {t \in Tasks : c_tasks[t].pc = "request"}

\* C29: during one run_arbfinder invocation at most one HTTP request is in
\* flight at any time: the fetches are awaited one after another, so at most one
\* get call holds a permit, the gate always has a free permit, and two requests
\* to the same host never overlap.
C29_OneRequestInFlight ==
    /\ Cardinality(InFlight) <= 1
    /\ Cardinality(InsideTasks) <= 1
    /\ c_sem >= MAX_CONCURRENCY - 1
    /\ \A t1, t2 \in InFlight : c_tasks[t1].host = c_tasks[t2].host => t1 = t2

\* C29 witness: the first request of a fetch is in flight to a host that an
\* earlier fetch of the run has requested.
C29_Witness ==
    \E t \in InFlight :
        /\ ~IsNull(c_sent)
        /\ Val(c_sent).host = c_tasks[t].host
        /\ ~IsNull(Val(c_sent).gap)
        /\ c_tasks[t].attempt = 1

\* The sold listings whose price went to the bin of `key`, and the smallest and
\* the largest of their prices, in cents.
StatsCluster(key) == {k \in 1..Len(x_sold) : x_keys[k] = key}
MinCents(ks) == CHOOSE p \in {x_sold[k].price : k \in ks} : \A k \in ks : p <= x_sold[k].price
MaxCents(ks) == CHOOSE p \in {x_sold[k].price : k \in ks} : \A k \in ks : x_sold[k].price <= p

\* The float v is between the smallest and the largest price of the cluster ks.
BetweenMinAndMax(v, ks) ==
    /\ FLeq(FloatOfCents(MinCents(ks)), v)
    /\ FLeq(v, FloatOfCents(MaxCents(ks)))

\* C28: compute_comps partitions its input: the counts of the comps add up to
\* the number of listings, every comp has count >= 1, avg_price and
\* median_price of a comp are between the smallest and the largest price of its
\* cluster, and an empty input gives an empty map.
C28_CompsPartitionInput ==
    x_pc = "built" =>
        /\ x_sold = <<>> => x_comps = <<>>
        /\ SumSeq([c \in 1..Len(x_comps) |-> x_comps[c].count]) = Len(x_sold)
        /\ \A k \in 1..Len(x_sold) : \E c \in 1..Len(x_comps) : x_comps[c].key_title = x_keys[k]
        /\ \A c \in 1..Len(x_comps) :
              LET ks == StatsCluster(x_comps[c].key_title)
              IN  /\ x_comps[c].count >= 1
                  /\ x_comps[c].count = Cardinality(ks)
                  /\ BetweenMinAndMax(x_comps[c].avg_price, ks)
                  /\ BetweenMinAndMax(x_comps[c].median_price, ks)
====
